---- MODULE Spec2Model ----
(***************************************************************************)
(* Activity tracking pipeline of obsidian-daily-activity:                  *)
(*   EventHandler (src/src/DateParser.ts, lines 144-973) and                *)
(*   ActivityDatabase (src/src/database/ActivityDatabase.ts).               *)
(*                                                                         *)
(* Time is counted in ticks of 30 000 ms.  JavaScript runs one callback at  *)
(* a time; a callback runs synchronously up to its next await on real I/O   *)
(* (vault.read, an IndexedDB transaction).  Every action below is one such  *)
(* synchronous section: a vault event with its listener, a timer expiry     *)
(* with its callback, or the completion of an I/O with the continuation of  *)
(* the handler that awaited it.                                             *)
(***************************************************************************)
EXTENDS Integers, Sequences, FiniteSets, TLC

(***************************************************************************)
(* Bounds of the model.                                                    *)
(***************************************************************************)
\* Spec: vault events, ticks and injected I/O failures of a run
MaxEnvEvents == 2
MaxTime == 3
MaxFaults == 1
\* SpecReliable: vault events and ticks of a run
MaxReliableEvents == 3
MaxReliableTime == 5
\* SpecModify
MaxModifyEvents == 4
MaxModifyTime == 7
\* SpecUnload: vault events and ticks of a run in which no I/O fails
MaxUnloadEvents == 3
MaxUnloadTime == 3
\* SpecTracking: vault events and ticks of a run
MaxTrackingEvents == 2
MaxTrackingTime == 5
\* SpecModifyFaulty: modify events, ticks and injected I/O failures of a run
MaxFaultyEvents == 3
MaxFaultyTime == 5
\* SpecFilter: vault events of a run
MaxFilterEvents == 2
\* SpecTwoLevel: modify events and ticks of a run
MaxTwoLevelEvents == 2
MaxTwoLevelTime == 4
\* SpecLedger: failed operations stored at the start, ticks and injected I/O
\* failures of a run
MaxLedgerLen == 2
MaxLedgerTime == 2
MaxLedgerFaults == 2
\* SpecCeiling: ticks and injected I/O failures of a run that lasts longer
\* than the hard ceiling of one hour
MaxCeilingTime == 121
MaxCeilingFaults == 122
\* SpecCap: the failed operations at the start that a retry has to await,
\* and the vault events, ticks and injected I/O failures of a run
MaxCapAwaited == 2
MaxCapEvents == 1
MaxCapTime == 1
MaxCapFaults == 3
\* handler invocations suspended at the same time
MaxTasks == 2

(***************************************************************************)
(* Program constants and settings, in ticks.                               *)
(***************************************************************************)
\* One tick is 30 000 ms.  The four intervals are values the settings tab
\* accepts: 30 000 ms of 1000..60000,
contentTrackingDebounceInterval == 1
\* 60 000 ms of 10000..300000 (the default),
dbWriteDebounceInterval == 2
\* 60 000 ms of 5000..60000,
modifyInactivityThreshold == 2
\* 90 000 ms of 60000..600000.
modifyMaxBatchDuration == 3
\* new Date(ts).toISOString().split('T')[0]: one UTC day is 86 400 000 ms
TicksPerDay == 2880
\* the model starts two ticks before a UTC midnight
StartTime == TicksPerDay - 2

Paths == {"a.md", "b.md"}
FileIds == {1, 2}
TaskIds == 1..MaxTasks
NoPath == "-"
NoTime == -1
EventTypes == {"create", "modify", "delete", "rename"}

Hi == <<"h", "i">>
Hello == <<"h", "e", "l", "l", "o">>
HelloWorld == <<"h", "e", "l", "l", "o", " ", "w", "o", "r", "l", "d">>
Contents == {Hi, Hello, HelloWorld}

Max(a, b) == IF a >= b THEN a ELSE b

(***************************************************************************)
(* Pure functions of EventHandler.                                         *)
(***************************************************************************)
IsSpace(ch) == ch = " "

RECURSIVE TrimLeft(_)
TrimLeft(s) == IF s # <<>> /\ IsSpace(Head(s)) THEN TrimLeft(Tail(s)) ELSE s

RECURSIVE TrimRight(_)
TrimRight(s) ==
    IF s # <<>> /\ IsSpace(s[Len(s)]) THEN TrimRight(SubSeq(s, 1, Len(s) - 1)) ELSE s

\* the number of matches of /\s+/ in s (maximal runs of whitespace)
RECURSIVE SpaceRuns(_, _)
SpaceRuns(s, inRun) ==
    IF s = <<>> THEN 0
    ELSE IF IsSpace(Head(s))
         THEN (IF inRun THEN 0 ELSE 1) + SpaceRuns(Tail(s), TRUE)
         ELSE SpaceRuns(Tail(s), FALSE)

\* content.trim().split(/\s+/).length
countWords(content) == 1 + SpaceRuns(TrimRight(TrimLeft(content)), FALSE)

calculateDiff(oldContent, newContent) ==
    LET lengthDiff == Len(newContent) - Len(oldContent)
    IN  [added |-> Max(0, lengthDiff), removed |-> Max(0, 0 - lengthDiff)]

(***************************************************************************)
(* State.                                                                  *)
(***************************************************************************)
VARIABLES
    now,                \* Date.now(), in ticks
    files,              \* the vault's TFile objects: path, content, exists
    settings,           \* plugin.settings (fixed during a run)
    fileContents,       \* EventHandler.fileContents: path -> PendingFileChange
    debouncedTrackers,  \* path -> debounced content tracker (file, due time)
    debouncedUpdaters,  \* path -> debounced event recorder (file, due time)
    maxBatchTimers,     \* path -> due time of the max batch timer
    failedOperations,   \* EventHandler.failedOperations, in insertion order
    operationKeys,      \* failed operations stored so far (keeps operationKey unique)
    retryInterval,      \* the interval of retryFailedOperations: armed, ran at this tick
    loadQueue,          \* files loadInitialFileStates has still to read
    tasks,              \* handler invocations suspended at an await
    dbOpen,             \* ActivityDatabase.db !== null
    file_events,        \* object store file_events (key: autoIncrement id)
    daily_stats,        \* object store daily_stats (key: date)
    file_stats,         \* object store file_stats (key: filePath)
    txQueue,            \* readwrite transactions in creation order (task ids)
    run,                \* the bounds and the I/O scheduling of this run
    faults,             \* injected I/O failures so far
    envEvents,          \* vault events delivered so far
    burst,              \* observer: the current burst of modify events per path
    unflushedSince,     \* observer: first modify event not yet in a Modify record
    renamesDelivered,   \* observer: trackable renames of non-transient paths
    delivered,          \* observer: create and delete events the listeners tracked
    abortedAfter,       \* observer: how many requests had executed when a transaction aborted
    unhandled,          \* observer: rejections that left a callback unhandled
    recovered           \* observer: keys of the failed operations a retry has recorded

handlerVars == <<fileContents, debouncedTrackers, debouncedUpdaters, maxBatchTimers,
                 failedOperations, operationKeys, tasks, txQueue, unhandled, recovered>>
dbVars == <<dbOpen, file_events, daily_stats, file_stats>>
obsVars == <<burst, unflushedSince, renamesDelivered, delivered, abortedAfter>>
vars == <<now, files, settings, run, retryInterval, loadQueue, handlerVars, dbVars,
          faults, envEvents, obsVars>>

(***************************************************************************)
(* ActivityDatabase.recordEvent: the three writes of one transaction.      *)
(***************************************************************************)
Put(store, key, row) ==
    [k \in DOMAIN store \cup {key} |-> IF k = key THEN row ELSE store[k]]

\* new Date(event.timestamp).toISOString().split('T')[0], as a day number
eventDate(timestamp) == timestamp \div TicksPerDay

\* an events store keyed by (filePath, timestamp): a record with the key of a
\* stored one takes its place
AddEventKeyed(store, event) ==
    IF \E i \in 1..Len(store) :
           store[i].filePath = event.filePath /\ store[i].timestamp = event.timestamp
    THEN [i \in 1..Len(store) |->
             IF store[i].filePath = event.filePath /\ store[i].timestamp = event.timestamp
             THEN event ELSE store[i]]
    ELSE Append(store, event)

\* eventsStore.add(eventWithDate)
AddEvent(store, event) == Append(store, event)

\* daily stats that count the record in totalEvents and in no eventCounts
UpsertDailyStatsUncounted(store, event) ==
    LET date == event.date
        dailyStats ==
            IF date \in DOMAIN store THEN store[date]
            ELSE [date |-> date, totalEvents |-> 0,
                  eventCounts |-> [k \in EventTypes |-> 0]]
    IN  Put(store, date, [dailyStats EXCEPT !.totalEvents = @ + 1])

\* daily stats built from the defaults alone, as if the row read in the
\* transaction were not there: the counts of the stored row are lost
UpsertDailyStatsFromDefaults(store, event) ==
    LET dailyStats == [date |-> event.date, totalEvents |-> 0,
                       eventCounts |-> [k \in EventTypes |-> 0]]
    IN  Put(store, event.date,
            [dailyStats EXCEPT !.totalEvents = @ + 1,
                               !.eventCounts[event.eventType] = @ + 1])

\* dailyStatsRequest.onsuccess
UpsertDailyStats(store, event) ==
    LET date == event.date
        dailyStats ==
            IF date \in DOMAIN store THEN store[date]
            ELSE [date |-> date, totalEvents |-> 0,
                  eventCounts |-> [k \in EventTypes |-> 0]]
    IN  Put(store, date,
            [dailyStats EXCEPT !.totalEvents = @ + 1,
                               !.eventCounts[event.eventType] = @ + 1])

\* file stats that are inserted at zero by the first event of a path and
\* updated only by later ones
UpsertFileStatsInsertOnly(store, event) ==
    IF event.filePath \in DOMAIN store
    THEN Put(store, event.filePath,
             [store[event.filePath] EXCEPT
                  !.totalEdits = @ + 1,
                  !.lastModified = event.timestamp,
                  !.totalAdded = @ + event.contentDiff.added,
                  !.totalRemoved = @ + event.contentDiff.removed])
    ELSE Put(store, event.filePath,
             [filePath |-> event.filePath, totalEdits |-> 0, totalAdded |-> 0,
              totalRemoved |-> 0, lastModified |-> event.timestamp])

\* fileStatsRequest.onsuccess
UpsertFileStats(store, event) ==
    LET stats ==
            IF event.filePath \in DOMAIN store THEN store[event.filePath]
            ELSE [filePath |-> event.filePath, totalEdits |-> 0, totalAdded |-> 0,
                  totalRemoved |-> 0, lastModified |-> event.timestamp]
    IN  Put(store, event.filePath,
            [stats EXCEPT !.totalEdits = @ + 1,
                          !.lastModified = event.timestamp,
                          !.totalAdded = @ + event.contentDiff.added,
                          !.totalRemoved = @ + event.contentDiff.removed])

\* the stores after the first n requests of recordEvent's transaction executed
RunRequests(stores, event, n) ==
    [events |-> IF n >= 1 THEN AddEvent(stores.events, event) ELSE stores.events,
     daily |-> IF n >= 2 THEN UpsertDailyStats(stores.daily, event) ELSE stores.daily,
     stats |-> IF n >= 3 THEN UpsertFileStats(stores.stats, event) ELSE stores.stats]

(***************************************************************************)
(* Record shapes.                                                          *)
(***************************************************************************)
Remove(map, key) == [k \in DOMAIN map \ {key} |-> map[k]]

ContentDiff(added, removed, wcBefore, wcAfter, ccBefore, ccAfter, ts) ==
    [added |-> added, removed |-> removed,
     wordCountBefore |-> wcBefore, wordCountAfter |-> wcAfter,
     charCountBefore |-> ccBefore, charCountAfter |-> ccAfter,
     lastDebounceTimestamp |-> ts]

\* FileEvent, with the date recordEvent adds (eventWithDate)
FileEvent(timestamp, filePath, eventType, oldPath, contentDiff) ==
    [timestamp |-> timestamp, filePath |-> filePath, eventType |-> eventType,
     oldPath |-> oldPath, contentDiff |-> contentDiff, date |-> eventDate(timestamp)]

NoEvent == FileEvent(0, NoPath, "none", NoPath, ContentDiff(0, 0, 0, 0, 0, 0, 0))

Accumulated(added, removed, wcBefore, wcAfter, ccBefore, ccAfter) ==
    [added |-> added, removed |-> removed,
     wordCountBefore |-> wcBefore, wordCountAfter |-> wcAfter,
     charCountBefore |-> ccBefore, charCountAfter |-> ccAfter]

\* PendingFileChange; lastUpdate and retryCount are written and never read
PendingFileChange(content, accumulatedChanges, batchStartTime) ==
    [content |-> content, accumulatedChanges |-> accumulatedChanges,
     batchStartTime |-> batchStartTime, forceBatchRecord |-> FALSE]

\* { ...accumulatedChanges, lastDebounceTimestamp: timestamp }
DiffOf(acc, ts) ==
    ContentDiff(acc.added, acc.removed, acc.wordCountBefore, acc.wordCountAfter,
                acc.charCountBefore, acc.charCountAfter, ts)

\* a handler invocation suspended at an await: pc names the await, file is the
\* TFile it holds, filePath the path string it captured, obj the key under which
\* the PendingFileChange object it holds is stored now (NoPath: no longer stored),
\* operations what retryFailedOperations has still to go through, from the
\* operation it is retrying
Task(pc, file, filePath, oldPath, obj) ==
    [pc |-> pc, file |-> file, filePath |-> filePath, oldPath |-> oldPath,
     obj |-> obj, event |-> NoEvent, operations |-> <<>>]

IdleTask == Task("idle", 0, NoPath, NoPath, NoPath)

ReadPcs == {"create_read", "modify_init_read", "force_read", "fallback_read",
            "tracker_read", "updater_read", "retry_create_read"}
RecordPcs == {"create_record", "force_record", "fallback_record", "updater_record",
              "updater2_record", "delete_record", "rename_record",
              "retry_create_record", "retry_delete_record"}
\* awaits of database.initialize()
InitializePcs == {"create_init", "modify_init", "rename_init", "retry_create_init"}

(***************************************************************************)
(* EventHandler.shouldTrackEvent.                                          *)
(***************************************************************************)
\* the names for which endsWith('.md') holds
MdNames ==
    Paths \cup {"Untitled.md", "notes/Untitled.md", "Activity Dashboard.md",
                "/Activity Dashboard.md"}

\* filePath.includes(pattern), over the names and the patterns the model
\* configures
PathIncludes(filePath, pattern) ==
    \/ pattern = filePath
    \/ pattern = ".md" /\ filePath \in MdNames
    \/ pattern = "notes/" /\ filePath = "notes/Untitled.md"
    \/ pattern = "a." /\ filePath = "a.md"
    \/ pattern = "b." /\ filePath = "b.md"

\* filePath === 'Untitled.md' || filePath.endsWith('/Untitled.md')
isUntitledFile(filePath) == filePath \in {"Untitled.md", "notes/Untitled.md"}

shouldTrackEvent(eventType, filePath) ==
    LET dashboardPath == settings.dashboardPath
        normalizedDashboardPath ==
            IF dashboardPath \in MdNames THEN dashboardPath ELSE dashboardPath \o ".md"
        eventTypeSettings ==
            [create |-> settings.trackFileCreation,
             modify |-> settings.trackFileModification,
             delete |-> settings.trackFileDeletion,
             rename |-> settings.trackFileRename]
        includePaths == settings.activityTrackingIncludePaths
        excludePaths == settings.activityTrackingExcludePaths
    IN  IF ~settings.enableActivityTracking THEN FALSE
        ELSE IF filePath = normalizedDashboardPath THEN FALSE
        ELSE IF isUntitledFile(filePath) THEN eventType \in {"rename", "create"}
        ELSE IF ~eventTypeSettings[eventType] THEN FALSE
        ELSE IF includePaths # {} /\ ~(\E p \in includePaths : PathIncludes(filePath, p))
             THEN FALSE
        ELSE IF excludePaths # {} /\ (\E p \in excludePaths : PathIncludes(filePath, p))
             THEN FALSE
        ELSE TRUE

(***************************************************************************)
(* Synchronous sections of EventHandler.  S is the handler's mutable state  *)
(* (fc: fileContents, tr: debouncedTrackers, up: debouncedUpdaters,         *)
(* mx: maxBatchTimers, fo: failedOperations, keys: operationKeys, tasks,    *)
(* txq: txQueue, db: database.isInitialized()) and F the vault's files at   *)
(* the time the section runs.                                               *)
(***************************************************************************)
HandlerState ==
    [fc |-> fileContents, tr |-> debouncedTrackers, up |-> debouncedUpdaters,
     mx |-> maxBatchTimers, fo |-> failedOperations, keys |-> operationKeys,
     tasks |-> tasks, txq |-> txQueue, db |-> dbOpen,
     unhandled |-> unhandled, recovered |-> recovered]

SetHandlerState(S) ==
    /\ fileContents' = S.fc
    /\ debouncedTrackers' = S.tr
    /\ debouncedUpdaters' = S.up
    /\ maxBatchTimers' = S.mx
    /\ failedOperations' = S.fo
    /\ operationKeys' = S.keys
    /\ tasks' = S.tasks
    /\ txQueue' = S.txq
    /\ unhandled' = S.unhandled
    /\ recovered' = S.recovered

\* the tasks that held the object stored under `from` now find it under `to`
Rehome(ts, from, to) ==
    [i \in TaskIds |-> IF ts[i].obj = from THEN [ts[i] EXCEPT !.obj = to] ELSE ts[i]]

\* fileContents.set(path, a new object)
SetPending(S, path, pending) ==
    [S EXCEPT !.fc = Put(@, path, pending), !.tasks = Rehome(@, path, NoPath)]

\* fileContents.delete(path)
DeletePending(S, path) ==
    [S EXCEPT !.fc = Remove(@, path), !.tasks = Rehome(@, path, NoPath)]

\* a rename that stores a new PendingFileChange with the content and without
\* the accumulated changes under the new path
MovePendingReset(S, oldPath, newPath) ==
    [S EXCEPT !.fc = Put(Remove(@, oldPath), newPath,
                         PendingFileChange(S.fc[oldPath].content,
                                           Accumulated(0, 0, 0, 0, 0, 0), NoTime)),
              !.tasks = Rehome(Rehome(@, newPath, NoPath), oldPath, NoPath)]

\* fileContents.delete(oldPath); fileContents.set(newPath, the same object)
MovePending(S, oldPath, newPath) ==
    [S EXCEPT !.fc = Put(Remove(@, oldPath), newPath, S.fc[oldPath]),
              !.tasks = Rehome(Rehome(@, newPath, NoPath), oldPath, newPath)]

clearMaxBatchTimer(S, filePath) == [S EXCEPT !.mx = Remove(@, filePath)]

setupMaxBatchTimer(S, filePath) ==
    [S EXCEPT !.mx = Put(@, filePath, now + modifyMaxBatchDuration)]

cancelDebounced(S, filePath) ==
    clearMaxBatchTimer([S EXCEPT !.tr = Remove(@, filePath), !.up = Remove(@, filePath)],
                       filePath)

\* if (this.failedOperations.size > 100)
MaxFailedOperations == 100
\* .slice(0, 50): "Remove the oldest 50"
OldestRemoved == 50

\* failedOperations.set(operationKey, ...), then beyond 100 entries the first
\* 50 of the keys sorted by timestamp are deleted.  The sort is stable, so
\* operations with the same timestamp keep their insertion order, which is
\* the order of the keys.
handleError(S, operation, filePath) ==
    LET stored == Append(S.fo, [key |-> S.keys + 1, operation |-> operation,
                                filePath |-> filePath, timestamp |-> now,
                                retryCount |-> 0])
        before(o) == Cardinality({j \in DOMAIN stored :
                                     \/ stored[j].timestamp < o.timestamp
                                     \/ /\ stored[j].timestamp = o.timestamp
                                        /\ stored[j].key < o.key})
    IN  [S EXCEPT !.fo = IF Len(stored) > MaxFailedOperations
                         THEN SelectSeq(stored, LAMBDA o : before(o) >= OldestRemoved)
                         ELSE stored,
                  !.keys = @ + 1]

\* a retry that leaves the operation it has gone through in failedOperations
KeepFailed(S, key) == S

\* failedOperations.delete(key)
DeleteFailed(S, key) == [S EXCEPT !.fo = SelectSeq(@, LAMBDA o : o.key # key)]

\* operation.timestamp = Date.now(), on the object the map may still hold
TouchFailed(S, key) ==
    [S EXCEPT !.fo = [i \in DOMAIN S.fo |->
                         IF S.fo[i].key = key THEN [S.fo[i] EXCEPT !.timestamp = now]
                         ELSE S.fo[i]]]

\* calling a lodash debounce()d function: created on first use, (re)armed to
\* fire `wait` after this call
CallDebounced(map, filePath, file, wait) ==
    Put(map, filePath,
        [file |-> IF filePath \in DOMAIN map THEN map[filePath].file ELSE file,
         due |-> now + wait])

handleModifyWithBatching(S, file, filePath) ==
    [S EXCEPT !.tr = CallDebounced(@, filePath, file,
                                   settings.contentTrackingDebounceInterval),
              !.up = CallDebounced(@, filePath, file, modifyInactivityThreshold)]

handleModifyWithTwoLevelDebounce(S, file, filePath) ==
    [S EXCEPT !.tr = CallDebounced(@, filePath, file,
                                   settings.contentTrackingDebounceInterval),
              !.up = CallDebounced(@, filePath, file, settings.dbWriteDebounceInterval)]

\* a sampler that keeps the difference of the last sample only, not the sum
trackContentChangesLastOnly(S, path, newContent) ==
    IF path \notin DOMAIN S.fc
    THEN SetPending(S, path,
             PendingFileChange(newContent,
                 Accumulated(Len(newContent), 0, 0, countWords(newContent),
                             0, Len(newContent)),
                 NoTime))
    ELSE LET diff == calculateDiff(S.fc[path].content, newContent)
         IN  [S EXCEPT !.fc[path] =
                 [@ EXCEPT !.accumulatedChanges.added = diff.added,
                           !.accumulatedChanges.removed = diff.removed,
                           !.accumulatedChanges.wordCountAfter = countWords(newContent),
                           !.accumulatedChanges.charCountAfter = Len(newContent),
                           !.content = newContent]]

\* trackContentChanges after its vault.read returned newContent
trackContentChanges(S, path, newContent) ==
    IF path \notin DOMAIN S.fc
    THEN SetPending(S, path,
             PendingFileChange(newContent,
                 Accumulated(Len(newContent), 0, 0, countWords(newContent),
                             0, Len(newContent)),
                 NoTime))
    ELSE LET pendingChange == S.fc[path]
             diff == calculateDiff(pendingChange.content, newContent)
         IN  [S EXCEPT !.fc[path] =
                 [pendingChange EXCEPT
                     !.accumulatedChanges.added = @ + Max(0, diff.added),
                     !.accumulatedChanges.removed = @ + Max(0, diff.removed),
                     !.accumulatedChanges.wordCountAfter = countWords(newContent),
                     !.accumulatedChanges.charCountAfter = Len(newContent),
                     !.content = newContent]]

Finish(S, t) == [S EXCEPT !.tasks[t] = IdleTask]

\* the rejection of task t's promise reaches no catch block
Escape(S, t) == Finish([S EXCEPT !.unhandled = @ + 1], t)

\* a debounced callback without a try block
DebouncedNoCatch(S, operation, filePath, t) == Escape(S, t)

\* a catch block of a debounced callback that drops the PendingFileChange of
\* the path whose sample failed
DebouncedCatchDropsPending(S, operation, filePath, t) ==
    Finish(handleError(DeletePending(S, filePath), operation, filePath), t)

\* the catch block of a debounced callback
DebouncedCatch(S, operation, filePath, t) ==
    Finish(handleError(S, operation, filePath), t)

RECURSIVE RetryLoop(_, _, _, _)

\* "older than 1 hour": 3 600 000 ms in ticks
HardCeiling == 120

\* the catch block inside retryFailedOperations' loop; error.message throws
\* on a null error and the outer catch block ends the whole retry.  The age
\* that is compared with the hard ceiling is taken from the timestamp the
\* line before has just set to Date.now().
RetryFailed(S, F, t, errorIsNull) ==
    LET operations == S.tasks[t].operations
        key == Head(operations).key
        timestamp == now
        touched == TouchFailed(S, key)
    IN  IF errorIsNull THEN Finish(S, t)
        ELSE RetryLoop(IF now - timestamp > HardCeiling THEN DeleteFailed(touched, key)
                       ELSE touched,
                       F, t, Tail(operations))

\* the awaited promise of task t rejected: the catch blocks of its handler
Reject(S, F, t) ==
    LET task == S.tasks[t]
    IN  CASE task.pc \in {"create_init", "create_read", "create_record"} ->
                 Finish(handleError(S, "create", F[task.file].path), t)
          [] task.pc \in {"modify_init", "modify_init_read", "force_read",
                          "force_record"} ->
                 \* handleModifyWithDebounce's catch: the direct fallback
                 [handleError(S, "debounce-setup", task.filePath)
                     EXCEPT !.tasks[t].pc = "fallback_read"]
          [] task.pc \in {"fallback_read", "fallback_record"} -> Finish(S, t)
          [] task.pc = "tracker_read" ->
                 DebouncedCatch(S, "content-track", task.filePath, t)
          [] task.pc \in {"updater_read", "updater_record", "updater2_record"} ->
                 DebouncedCatch(S, "db-update", task.filePath, t)
          [] task.pc = "delete_record" ->
                 Finish(handleError(S, "delete", F[task.file].path), t)
          [] task.pc \in {"rename_init", "rename_record"} ->
                 Finish(handleError(S, "rename",
                                    task.oldPath \o " -> " \o F[task.file].path), t)
          [] task.pc \in {"retry_create_init", "retry_create_read",
                          "retry_create_record", "retry_delete_record"} ->
                 RetryFailed(S, F, t, FALSE)
          [] OTHER -> Escape(S, t)

\* the awaited recordEvent of task t resolved (or handleFileModify returned
\* without recording): the rest of its handler
Resolve(S, F, t) ==
    LET task == S.tasks[t]
    IN  CASE task.pc = "force_record" ->
                 \* pendingChange.batchStartTime = Date.now() on the object held
                 LET S1 == IF task.obj # NoPath
                           THEN [S EXCEPT !.fc[task.obj].batchStartTime = now]
                           ELSE S
                 IN  Finish(setupMaxBatchTimer(clearMaxBatchTimer(S1, task.filePath),
                                               task.filePath), t)
          [] task.pc = "updater_record" ->
                 IF task.filePath \in DOMAIN S.fc
                 THEN Finish(setupMaxBatchTimer(
                                 clearMaxBatchTimer(
                                     [S EXCEPT !.fc[task.filePath].batchStartTime = now],
                                     task.filePath),
                                 task.filePath), t)
                 ELSE Finish(S, t)
          [] task.pc \in {"retry_create_record", "retry_delete_record"} ->
                 \* "If we got here, the retry was successful"
                 LET key == Head(task.operations).key
                 IN  RetryLoop([DeleteFailed(S, key) EXCEPT !.recovered = Append(@, key)],
                               F, t, Tail(task.operations))
          [] OTHER -> Finish(S, t)

\* a recordEvent that does not look at isInitialized()
recordEventUnguarded(S, F, t, task, pc, event) ==
    [S EXCEPT !.tasks[t] = [task EXCEPT !.pc = pc, !.event = event],
              !.txq = Append(@, t)]

\* database.recordEvent(event) called by task t, which then awaits it at pc
recordEvent(S, F, t, task, pc, event) ==
    LET S1 == [S EXCEPT !.tasks[t] = [task EXCEPT !.pc = pc, !.event = event]]
    IN  IF S.db THEN [S1 EXCEPT !.txq = Append(@, t)] ELSE Reject(S1, F, t)

\* handleFileModify(file) called by task t
handleFileModify(S, F, t, task, pc) ==
    LET path == F[task.file].path
    IN  IF path \notin DOMAIN S.fc
        THEN Resolve([S EXCEPT !.tasks[t] = [task EXCEPT !.pc = pc]], F, t)
        ELSE recordEvent(S, F, t, task, pc,
                 FileEvent(now, path, "modify", NoPath,
                           DiffOf(S.fc[path].accumulatedChanges, now)))

\* RETRY_DELAY (5000 ms) in ticks, rounded up: an operation stored at an
\* earlier tick is old enough to be retried
RETRY_DELAY == 1

\* filesToSkip.some(...), over the names of the model: no name has a folder,
\* and a name starts with itself or is the "P -> Q" of a failed rename
shouldSkip(filePath) ==
    \E skipPattern \in {settings.dashboardPath \o ".md", settings.dashboardPath,
                        "Untitled.md", "activity-export-"} :
        \/ filePath = skipPattern
        \/ \E q \in Paths : filePath = skipPattern \o " -> " \o q

\* vault.getAbstractFileByPath(filePath) instanceof TFile
FilesAt(F, filePath) == {f \in FileIds : F[f].exists /\ F[f].path = filePath}

\* the for loop of retryFailedOperations, run by task t from the first of
\* `operations` up to its next await: the operations before the first one the
\* loop has to await are passed over when they are too recent and deleted
\* otherwise (a skipped file, a file that is not found, a rename, or no case
\* of the switch: "the retry was successful").  `operations` holds the objects
\* of the map, so the timestamp read is the one the map holds now.
RetryLoop(S, F, t, operations) ==
    LET timestamp(operation) ==
            IF \E i \in DOMAIN S.fo : S.fo[i].key = operation.key
            THEN S.fo[CHOOSE i \in DOMAIN S.fo : S.fo[i].key = operation.key].timestamp
            ELSE operation.timestamp
        tooRecent(operation) == now - timestamp(operation) < RETRY_DELAY
        awaited(operation) ==
            /\ ~tooRecent(operation)
            /\ ~shouldSkip(operation.filePath)
            /\ \/ /\ operation.operation \in {"create", "modify"}
                  /\ FilesAt(F, operation.filePath) # {}
               \/ operation.operation = "delete"
        next == IF \E i \in DOMAIN operations : awaited(operations[i])
                THEN CHOOSE i \in DOMAIN operations :
                         /\ awaited(operations[i])
                         /\ \A j \in 1..(i - 1) : ~awaited(operations[j])
                ELSE Len(operations) + 1
        deleted == {operations[i].key : i \in {j \in 1..(next - 1) :
                                                   ~tooRecent(operations[j])}}
        S1 == [S EXCEPT !.fo = SelectSeq(@, LAMBDA o : o.key \notin deleted)]
    IN  IF next > Len(operations) THEN Finish(S1, t)
        ELSE LET operation == operations[next]
                 task == [Task("retry", 0, operation.filePath, NoPath, NoPath)
                             EXCEPT !.operations =
                                        SubSeq(operations, next, Len(operations))]
             IN  IF operation.operation = "delete"
                 THEN recordEvent(S1, F, t, task, "retry_delete_record",
                          FileEvent(now, operation.filePath, "delete", NoPath,
                                    ContentDiff(0, 0, 0, 0, 0, 0, now)))
                 ELSE \* await this.handleFileCreate(file)
                      [S1 EXCEPT !.tasks[t] =
                          [task EXCEPT
                              !.pc = IF S.db THEN "retry_create_read"
                                     ELSE "retry_create_init",
                              !.file = CHOOSE f \in FilesAt(F, operation.filePath) :
                                           TRUE]]

\* a retry that goes through the failed operations whether the database is
\* initialized or not
retryFailedOperationsUnguarded(S, F, t) == RetryLoop(S, F, t, S.fo)

\* retryFailedOperations, called by the interval with failed operations stored,
\* run by task t up to its first await: nothing is done when the database is
\* not initialized
retryFailedOperations(S, F, t) ==
    IF ~S.db THEN S ELSE RetryLoop(S, F, t, S.fo)

\* the lowest free task slot
FreeSlot(S) == \E i \in TaskIds : S.tasks[i].pc = "idle"
NewTaskId(S) ==
    CHOOSE i \in TaskIds :
        /\ S.tasks[i].pc = "idle"
        /\ \A j \in TaskIds : j < i => S.tasks[j].pc # "idle"

Suspend(S, task) == [S EXCEPT !.tasks[NewTaskId(S)] = task]

ArmDebounce(S, file, filePath) ==
    IF settings.modifyBatchingEnabled
    THEN handleModifyWithBatching(S, file, filePath)
    ELSE handleModifyWithTwoLevelDebounce(S, file, filePath)

\* a modify handler that leaves forceBatchRecord set when it takes the forced
\* flush
handleModifyWithDebounceKeepsFlag(S, file, filePath) ==
    IF ~S.db
    THEN Suspend(S, Task("modify_init", file, filePath, NoPath, NoPath))
    ELSE IF filePath \notin DOMAIN S.fc
    THEN Suspend(S, Task("modify_init_read", file, filePath, NoPath, NoPath))
    ELSE IF S.fc[filePath].forceBatchRecord
         THEN Suspend(S, Task("force_read", file, filePath, NoPath, filePath))
         ELSE ArmDebounce(S, file, filePath)

\* handleModifyWithDebounce up to its first await
handleModifyWithDebounce(S, file, filePath) ==
    IF ~S.db
    THEN Suspend(S, Task("modify_init", file, filePath, NoPath, NoPath))
    ELSE IF filePath \notin DOMAIN S.fc
    THEN Suspend(S, Task("modify_init_read", file, filePath, NoPath, NoPath))
    ELSE IF S.fc[filePath].forceBatchRecord
         THEN Suspend([S EXCEPT !.fc[filePath].forceBatchRecord = FALSE],
                      Task("force_read", file, filePath, NoPath, filePath))
         ELSE ArmDebounce(S, file, filePath)

\* handleFileCreate up to its first await
handleFileCreate(S, file) ==
    Suspend(S, Task(IF S.db THEN "create_read" ELSE "create_init",
                    file, NoPath, NoPath, NoPath))

handleFileDelete(S, F, file) ==
    LET path == F[file].path
    IN  IF path \notin DOMAIN S.fc THEN S
        ELSE LET content == S.fc[path].content
                 event == FileEvent(now, path, "delete", NoPath,
                              ContentDiff(0, Len(content), countWords(content), 0,
                                          Len(content), 0, now))
             IN  recordEvent(DeletePending(S, path), F, NewTaskId(S),
                             Task("delete_record", file, NoPath, NoPath, NoPath),
                             "delete_record", event)

\* a rename handler that records every rename, also one from Untitled.md, as
\* a rename from the old path
handleFileRenameAsRename(S, F, file, oldPath) ==
    IF ~S.db THEN Suspend(S, Task("rename_init", file, NoPath, oldPath, NoPath))
    ELSE IF oldPath \notin DOMAIN S.fc THEN S
    ELSE LET content == S.fc[oldPath].content
             event == FileEvent(now, F[file].path, "rename", oldPath,
                          ContentDiff(0, 0, countWords(content), countWords(content),
                                      Len(content), Len(content), now))
         IN  recordEvent(MovePending(S, oldPath, F[file].path), F, NewTaskId(S),
                         Task("rename_record", file, NoPath, oldPath, NoPath),
                         "rename_record", event)

handleFileRename(S, F, file, oldPath) ==
    IF ~S.db THEN Suspend(S, Task("rename_init", file, NoPath, oldPath, NoPath))
    ELSE IF oldPath \notin DOMAIN S.fc THEN S
    ELSE LET content == S.fc[oldPath].content
             isFromUntitled == isUntitledFile(oldPath)
             newPath == F[file].path
             event ==
                 FileEvent(now, newPath,
                     IF isFromUntitled THEN "create" ELSE "rename",
                     IF isFromUntitled THEN NoPath ELSE oldPath,
                     ContentDiff(IF isFromUntitled THEN Len(content) ELSE 0, 0,
                                 IF isFromUntitled THEN 0 ELSE countWords(content),
                                 countWords(content),
                                 IF isFromUntitled THEN 0 ELSE Len(content),
                                 Len(content), now))
         IN  recordEvent(MovePending(S, oldPath, newPath), F, NewTaskId(S),
                         Task("rename_record", file, NoPath, oldPath, NoPath),
                         "rename_record", event)

\* the awaited database.initialize() of task t resolved: the handler up to
\* its next await
Initialized(S, F, t) ==
    LET task == S.tasks[t]
    IN  CASE task.pc = "create_init" -> [S EXCEPT !.tasks[t].pc = "create_read"]
          [] task.pc = "retry_create_init" ->
                 [S EXCEPT !.tasks[t].pc = "retry_create_read"]
          [] task.pc = "modify_init" ->
                 handleModifyWithDebounce(Finish(S, t), task.file, task.filePath)
          [] task.pc = "rename_init" ->
                 handleFileRename(Finish(S, t), F, task.file, task.oldPath)

\* EventHandler.cleanup: cancelDebounced for every key of debouncedTrackers,
\* then the maps but maxBatchTimers are cleared.  A debounced function that
\* clear() drops without cancelling it, and a max batch timer, stay armed.
cleanup(S) ==
    LET cancelled == DOMAIN S.tr
    IN  [S EXCEPT !.fc = <<>>,
                  !.tr = <<>>,
                  !.up = [p \in DOMAIN S.up \ cancelled |-> S.up[p]],
                  !.mx = [p \in DOMAIN S.mx \ cancelled |-> S.mx[p]],
                  !.fo = <<>>,
                  !.tasks = [i \in TaskIds |-> [S.tasks[i] EXCEPT !.obj = NoPath]]]

\* the awaited vault.read of task t returned content: the handler up to its
\* next await
ReadDone(S, F, t, content) ==
    LET task == S.tasks[t]
        path == F[task.file].path
    IN  CASE task.pc \in {"create_read", "retry_create_read"} ->
                 LET acc == Accumulated(Len(content), 0, 0, countWords(content),
                                        0, Len(content))
                 IN  recordEvent(SetPending(S, path, PendingFileChange(content, acc, NoTime)),
                                 F, t, task,
                                 IF task.pc = "create_read" THEN "create_record"
                                 ELSE "retry_create_record",
                                 FileEvent(now, path, "create", NoPath, DiffOf(acc, now)))
          [] task.pc = "modify_init_read" ->
                 LET wordCount == countWords(content)
                     S1 == SetPending(S, task.filePath,
                               PendingFileChange(content,
                                   Accumulated(0, 0, wordCount, wordCount,
                                               Len(content), Len(content)),
                                   now))
                     S2 == IF settings.modifyBatchingEnabled
                           THEN setupMaxBatchTimer(S1, task.filePath)
                           ELSE S1
                 IN  Finish(ArmDebounce(S2, task.file, task.filePath), t)
          [] task.pc = "force_read" ->
                 handleFileModify(trackContentChanges(S, path, content), F, t, task,
                                  "force_record")
          [] task.pc = "fallback_read" ->
                 handleFileModify(trackContentChanges(S, path, content), F, t, task,
                                  "fallback_record")
          [] task.pc = "tracker_read" ->
                 Finish(trackContentChanges(S, path, content), t)
          [] task.pc = "updater_read" ->
                 handleFileModify(trackContentChanges(S, path, content), F, t, task,
                                  "updater_record")

(***************************************************************************)
(* Observers of the vault's events and of the committed records.           *)
(***************************************************************************)
\* nothing is pending or in flight for path: no armed debounce, no handler
Quiet(path) ==
    /\ path \in DOMAIN debouncedTrackers => debouncedTrackers[path].due = NoTime
    /\ path \in DOMAIN debouncedUpdaters => debouncedUpdaters[path].due = NoTime
    /\ \A i \in TaskIds :
          tasks[i].pc # "idle" =>
              /\ tasks[i].filePath # path
              /\ tasks[i].file \in FileIds => files[tasks[i].file].path # path

NoBurst == [n |-> 0, start |-> NoTime, last |-> NoTime, added |-> 0, removed |-> 0,
            recs |-> 0, clean |-> FALSE]

\* a modify event of path: the true length change joins the burst in progress,
\* or starts a new burst when the path was quiet since an earlier tick
ObserveModify(path, oldContent, newContent) ==
    LET b == burst[path]
        d == calculateDiff(oldContent, newContent)
        fresh == b.n = 0 \/ (Quiet(path) /\ now > b.last)
    IN  /\ burst' = [burst EXCEPT ![path] =
                IF fresh
                THEN [n |-> 1, start |-> now, last |-> now,
                      added |-> d.added, removed |-> d.removed, recs |-> 0,
                      clean |-> /\ path \in DOMAIN fileContents
                                /\ fileContents[path].accumulatedChanges.added = 0
                                /\ fileContents[path].accumulatedChanges.removed = 0
                                /\ fileContents[path].content = oldContent]
                ELSE [b EXCEPT !.n = @ + 1, !.last = now,
                               !.added = @ + d.added, !.removed = @ + d.removed]]
        /\ unflushedSince' = [unflushedSince EXCEPT ![path] =
                IF @ = NoTime THEN now ELSE @]

\* a record was committed
ObserveCommit(event) ==
    IF event.eventType = "modify"
    THEN /\ burst' = [burst EXCEPT ![event.filePath].recs = @ + 1]
         /\ unflushedSince' = [unflushedSince EXCEPT ![event.filePath] = NoTime]
    ELSE UNCHANGED <<burst, unflushedSince>>

\* a create, delete or rename event ends what was observed of its paths
ObserveReset(paths) ==
    /\ burst' = [p \in DOMAIN burst |-> IF p \in paths THEN NoBurst ELSE burst[p]]
    /\ unflushedSince' =
           [p \in DOMAIN burst |-> IF p \in paths THEN NoTime ELSE unflushedSince[p]]

(***************************************************************************)
(* Initial state: the plugin has loaded (main.ts onload): the database is   *)
(* initialized, the EventHandler is constructed with empty maps, and        *)
(* loadInitialFileStates is about to read the files the vault holds.        *)
(***************************************************************************)
DefaultSettings ==
    [enableActivityTracking |-> TRUE,
     trackFileCreation |-> TRUE, trackFileModification |-> TRUE,
     trackFileDeletion |-> TRUE, trackFileRename |-> TRUE,
     modifyBatchingEnabled |-> TRUE,
     contentTrackingDebounceInterval |-> contentTrackingDebounceInterval,
     dbWriteDebounceInterval |-> dbWriteDebounceInterval,
     activityTrackingIncludePaths |-> {}, activityTrackingExcludePaths |-> {},
     dashboardPath |-> "Activity Dashboard.md"]

NoFile == [path |-> NoPath, content |-> Hi, exists |-> FALSE]

\* an EventHandler constructed in a vault that holds a.md, over a database
\* that is initialized or not, with `ledger` as its failed operations; `names`
\* are the paths the observers follow
Constructed(bounds, names, initialized, ledger) ==
    /\ run = bounds
    /\ now = StartTime
    /\ \E c \in {Hi, Hello} :
          files = [f \in FileIds |->
                      IF f = 1 THEN [path |-> "a.md", content |-> c, exists |-> TRUE]
                      ELSE NoFile]
    /\ fileContents = <<>>
    /\ debouncedTrackers = <<>>
    /\ debouncedUpdaters = <<>>
    /\ maxBatchTimers = <<>>
    /\ failedOperations = ledger
    /\ operationKeys = Len(ledger)
    /\ retryInterval = [armed |-> TRUE, ran |-> TRUE]
    /\ loadQueue = <<1>>
    /\ tasks = [i \in TaskIds |-> IdleTask]
    /\ dbOpen = initialized
    /\ file_events = <<>>
    /\ daily_stats = <<>>
    /\ file_stats = <<>>
    /\ txQueue = <<>>
    /\ faults = 0
    /\ envEvents = 0
    /\ burst = [p \in names |-> NoBurst]
    /\ unflushedSince = [p \in names |-> NoTime]
    /\ renamesDelivered = 0
    /\ delivered = [create |-> 0, delete |-> 0]
    /\ abortedAfter = {}
    /\ unhandled = 0
    /\ recovered = <<>>

\* the plugin has loaded (main.ts onload): the database is initialized and
\* nothing has failed
Loaded(bounds, names) == Constructed(bounds, names, TRUE, <<>>)

\* the plugin has loaded with the event types of `tracked` enabled
BeginTracking(bounds, tracked) ==
    /\ Loaded(bounds, Paths)
    /\ \E batching \in BOOLEAN :
          settings = [DefaultSettings EXCEPT
                         !.modifyBatchingEnabled = batching,
                         !.trackFileCreation = "create" \in tracked,
                         !.trackFileModification = "modify" \in tracked,
                         !.trackFileDeletion = "delete" \in tracked,
                         !.trackFileRename = "rename" \in tracked]

\* the default settings track every event type
Begin(bounds) == BeginTracking(bounds, EventTypes)

\* vault events and timers may arrive while a handler is suspended at an await
Init ==
    Begin([maxEvents |-> MaxEnvEvents, maxTime |-> MaxTime, maxFaults |-> MaxFaults,
           interleave |-> TRUE])

\* every setting of trackFileDeletion and trackFileRename; modifications are
\* tracked, so that timers are armed
InitTracking ==
    \E tracked \in SUBSET {"delete", "rename"} :
        BeginTracking([maxEvents |-> MaxTrackingEvents, maxTime |-> MaxTrackingTime,
                       maxFaults |-> 0, interleave |-> FALSE],
                      {"create", "modify"} \cup tracked)

InitModifyFaulty ==
    Begin([maxEvents |-> MaxFaultyEvents, maxTime |-> MaxFaultyTime,
           maxFaults |-> MaxFaults, interleave |-> FALSE])

\* inactivity batching is on (the default), so that max batch timers are armed
InitUnload ==
    /\ Begin([maxEvents |-> MaxUnloadEvents, maxTime |-> MaxUnloadTime, maxFaults |-> 0,
              interleave |-> TRUE])
    /\ settings.modifyBatchingEnabled
    /\ files[1].content = Hello

\* every I/O completes before the next vault event or timer
InitReliable ==
    Begin([maxEvents |-> MaxReliableEvents, maxTime |-> MaxReliableTime, maxFaults |-> 0,
           interleave |-> FALSE])

InitModify ==
    Begin([maxEvents |-> MaxModifyEvents, maxTime |-> MaxModifyTime, maxFaults |-> 0,
           interleave |-> FALSE])

\* two-level debouncing (inactivity batching off) with every pair of a content
\* tracking and a database write interval of 30 000 ms or 60 000 ms, values
\* the settings tab accepts for both
InitTwoLevel ==
    /\ Loaded([maxEvents |-> MaxTwoLevelEvents, maxTime |-> MaxTwoLevelTime,
               maxFaults |-> 0, interleave |-> FALSE], Paths)
    /\ \E contentInterval \in 1..2, dbInterval \in 1..2 :
          settings = [DefaultSettings EXCEPT
                         !.modifyBatchingEnabled = FALSE,
                         !.contentTrackingDebounceInterval = contentInterval,
                         !.dbWriteDebounceInterval = dbInterval]

\* the paths of the vault when the filter is exercised: a note, transient
\* names and the dashboard with and without its extension
FilterNames ==
    {"a.md", "Untitled.md", "notes/Untitled.md", "Activity Dashboard.md",
     "Activity Dashboard"}

\* every setting the filter reads: the global switch, the four event type
\* flags, include and exclude lists, and a dashboard path as the settings tab
\* takes it (any text)
InitFilter ==
    /\ Loaded([maxEvents |-> MaxFilterEvents, maxTime |-> 0, maxFaults |-> 0,
               interleave |-> FALSE], FilterNames)
    /\ files[1].content = Hi
    /\ \E enabled \in BOOLEAN, tracked \in SUBSET EventTypes,
          includePaths \in {{}, {"a."}, {"notes/", ".md"}},
          excludePaths \in {{}, {"notes/"}},
          dashboardPath \in {"Activity Dashboard.md", "Activity Dashboard",
                             "/Activity Dashboard.md"} :
          settings = [DefaultSettings EXCEPT
                         !.enableActivityTracking = enabled,
                         !.trackFileCreation = "create" \in tracked,
                         !.trackFileModification = "modify" \in tracked,
                         !.trackFileDeletion = "delete" \in tracked,
                         !.trackFileRename = "rename" \in tracked,
                         !.activityTrackingIncludePaths = includePaths,
                         !.activityTrackingExcludePaths = excludePaths,
                         !.dashboardPath = dashboardPath]

\* what failedOperations may hold: up to MaxLedgerLen operations of the kinds
\* the listeners and the debounced recorder store, stored or last retried at
\* the current or at an earlier tick
LedgerStates ==
    LET entries == [operation : {"create", "delete", "db-update"}, filePath : Paths,
                    timestamp : {StartTime - 1, StartTime}]
        keyed(seq) == [i \in DOMAIN seq |->
                          [key |-> i, operation |-> seq[i].operation,
                           filePath |-> seq[i].filePath,
                           timestamp |-> seq[i].timestamp, retryCount |-> 0]]
    IN  {keyed(seq) : seq \in UNION {[1..n -> entries] : n \in 1..MaxLedgerLen}}

\* the EventHandler by itself: it holds failed operations, and the database
\* it was given is initialized or not.  (In the plugin the interval runs from
\* the constructor to cleanup, and main.ts closes the database only after
\* cleanup; the handler's own methods check isInitialized() each time.)
InitLedger ==
    /\ \E initialized \in BOOLEAN, ledger \in LedgerStates :
          Constructed([maxEvents |-> 0, maxTime |-> MaxLedgerTime,
                       maxFaults |-> MaxLedgerFaults, interleave |-> TRUE],
                      Paths, initialized, ledger)
    /\ settings = DefaultSettings

\* the plugin has run for a while and holds one failed operation, stored at
\* the current or at an earlier tick
InitCeiling ==
    /\ \E ledger \in {l \in LedgerStates : Len(l) = 1} :
          Constructed([maxEvents |-> 0, maxTime |-> MaxCeilingTime,
                       maxFaults |-> MaxCeilingFaults, interleave |-> FALSE],
                      Paths, TRUE, ledger)
    /\ settings = DefaultSettings

\* failedOperations is full: 100 operations stored at the tick before, of
\* which the first MaxCapAwaited are failed creates and deletes and the others
\* failed content samples of a.md
InitCap ==
    /\ \E first \in [1..MaxCapAwaited ->
                         [operation : {"create", "delete"}, filePath : Paths]] :
          Constructed([maxEvents |-> MaxCapEvents, maxTime |-> MaxCapTime,
                       maxFaults |-> MaxCapFaults, interleave |-> FALSE],
                      Paths, TRUE,
                      [i \in 1..MaxFailedOperations |->
                          [key |-> i,
                           operation |-> IF i <= MaxCapAwaited THEN first[i].operation
                                         ELSE "content-track",
                           filePath |-> IF i <= MaxCapAwaited THEN first[i].filePath
                                        ELSE "a.md",
                           timestamp |-> StartTime - 1, retryCount |-> 0]])
    /\ settings = DefaultSettings

AllIdle == loadQueue = <<>> /\ \A i \in TaskIds : tasks[i].pc = "idle"

Schedulable == run.interleave \/ AllIdle

(***************************************************************************)
(* loadInitialFileStates: one file read and seeded per step.               *)
(***************************************************************************)
\* an initial state that counts the content loaded as added, as the state
\* handleFileCreate stores does
InitialFileStateAsCreated(content) ==
    PendingFileChange(content,
        Accumulated(Len(content), 0, 0, countWords(content), 0, Len(content)),
        NoTime)

\* the PendingFileChange loadInitialFileStates stores for a file it has read
InitialFileState(content) ==
    PendingFileChange(content,
        Accumulated(0, 0, 0, countWords(content), 0, Len(content)),
        NoTime)

LoadInitialFileState ==
    /\ loadQueue # <<>>
    /\ LET file == Head(loadQueue)
           content == files[file].content
           S == HandlerState
       IN  /\ loadQueue' = Tail(loadQueue)
           /\ IF files[file].exists
              THEN SetHandlerState(SetPending(S, files[file].path, InitialFileState(content)))
              ELSE UNCHANGED handlerVars
    /\ UNCHANGED <<now, files, settings, run, retryInterval, dbVars, faults, envEvents, obsVars>>

(***************************************************************************)
(* Vault events and their listeners (initializeEventListeners).            *)
(***************************************************************************)
\* no handler, debounced function or load step holds the TFile
Unreferenced(file) ==
    /\ \A i \in TaskIds : tasks[i].pc # "idle" => tasks[i].file # file
    /\ \A p \in DOMAIN debouncedTrackers : debouncedTrackers[p].file # file
    /\ \A p \in DOMAIN debouncedUpdaters : debouncedUpdaters[p].file # file
    /\ \A i \in 1..Len(loadQueue) : loadQueue[i] # file

\* a TFile object the vault can hand out for a new file
NewFile(file) ==
    /\ ~files[file].exists /\ Unreferenced(file)
    /\ \A g \in FileIds : g < file => ~(~files[g].exists /\ Unreferenced(g))

PathFree(path) == \A f \in FileIds : files[f].exists => files[f].path # path

VaultCreate(file, path, content) ==
    /\ envEvents < run.maxEvents /\ Schedulable
    /\ NewFile(file) /\ PathFree(path)
    /\ FreeSlot(HandlerState)
    /\ files' = [files EXCEPT ![file] = [path |-> path, content |-> content, exists |-> TRUE]]
    /\ IF shouldTrackEvent("create", path)
       THEN /\ SetHandlerState(handleFileCreate(HandlerState, file))
            /\ delivered' = [delivered EXCEPT !.create = @ + 1]
       ELSE UNCHANGED <<handlerVars, delivered>>
    /\ ObserveReset({path})
    /\ envEvents' = envEvents + 1
    /\ UNCHANGED <<now, settings, run, retryInterval, loadQueue, dbVars, faults,
                   renamesDelivered, abortedAfter>>

VaultModify(file, content) ==
    /\ envEvents < run.maxEvents /\ Schedulable
    /\ files[file].exists /\ content # files[file].content
    /\ FreeSlot(HandlerState)
    /\ files' = [files EXCEPT ![file].content = content]
    /\ IF shouldTrackEvent("modify", files[file].path)
       THEN /\ SetHandlerState(
                   handleModifyWithDebounce(HandlerState, file, files[file].path))
            /\ ObserveModify(files[file].path, files[file].content, content)
       ELSE UNCHANGED <<handlerVars, burst, unflushedSince>>
    /\ envEvents' = envEvents + 1
    /\ UNCHANGED <<now, settings, run, retryInterval, loadQueue, dbVars, faults,
                   renamesDelivered, delivered, abortedAfter>>

VaultDelete(file) ==
    /\ envEvents < run.maxEvents /\ Schedulable
    /\ files[file].exists
    /\ FreeSlot(HandlerState)
    /\ LET F == [files EXCEPT ![file].exists = FALSE, ![file].content = Hi]
       IN  /\ files' = F
           /\ IF shouldTrackEvent("delete", F[file].path)
              THEN /\ SetHandlerState(
                          handleFileDelete(cancelDebounced(HandlerState, F[file].path),
                                           F, file))
                   /\ delivered' = [delivered EXCEPT !.delete = @ + 1]
              ELSE UNCHANGED <<handlerVars, delivered>>
    /\ ObserveReset({files[file].path})
    /\ envEvents' = envEvents + 1
    /\ UNCHANGED <<now, settings, run, retryInterval, loadQueue, dbVars, faults,
                   renamesDelivered, abortedAfter>>

VaultRename(file, newPath) ==
    /\ envEvents < run.maxEvents /\ Schedulable
    /\ files[file].exists /\ newPath # files[file].path /\ PathFree(newPath)
    /\ FreeSlot(HandlerState)
    /\ LET F == [files EXCEPT ![file].path = newPath]
           oldPath == files[file].path
           tracked == shouldTrackEvent("rename", newPath)
                        \/ shouldTrackEvent("rename", oldPath)
       IN  /\ files' = F
           /\ IF tracked
              THEN SetHandlerState(
                       handleFileRename(cancelDebounced(HandlerState, oldPath),
                                        F, file, oldPath))
              ELSE UNCHANGED handlerVars
           /\ renamesDelivered' =
                  IF tracked /\ ~isUntitledFile(oldPath)
                  THEN renamesDelivered + 1 ELSE renamesDelivered
    /\ ObserveReset({files[file].path, newPath})
    /\ envEvents' = envEvents + 1
    /\ UNCHANGED <<now, settings, run, retryInterval, loadQueue, dbVars, faults, delivered,
                   abortedAfter>>

(***************************************************************************)
(* Timers.                                                                 *)
(***************************************************************************)
Due(time) == time # NoTime /\ time <= now

\* the debounced content tracker of path fires
TrackerFires(path) ==
    /\ Schedulable
    /\ path \in DOMAIN debouncedTrackers /\ Due(debouncedTrackers[path].due)
    /\ FreeSlot(HandlerState)
    /\ LET S == [HandlerState EXCEPT !.tr[path].due = NoTime]
       IN  SetHandlerState(
               Suspend(S, Task("tracker_read", debouncedTrackers[path].file, path,
                               NoPath, NoPath)))
    /\ UNCHANGED <<now, files, settings, run, retryInterval, loadQueue, dbVars, faults, envEvents,
                   obsVars>>

\* the debounced event recorder of path fires
UpdaterFires(path) ==
    /\ Schedulable
    /\ path \in DOMAIN debouncedUpdaters /\ Due(debouncedUpdaters[path].due)
    /\ FreeSlot(HandlerState)
    /\ LET S == [HandlerState EXCEPT !.up[path].due = NoTime]
           file == debouncedUpdaters[path].file
       IN  SetHandlerState(
               IF settings.modifyBatchingEnabled
               THEN Suspend(S, Task("updater_read", file, path, NoPath, NoPath))
               ELSE handleFileModify(S, files, NewTaskId(S),
                                     Task("updater2_record", file, path, NoPath, NoPath),
                                     "updater2_record"))
    /\ UNCHANGED <<now, files, settings, run, retryInterval, loadQueue, dbVars, faults, envEvents,
                   obsVars>>

\* the timer of setupMaxBatchTimer fires
MaxBatchTimerFires(path) ==
    /\ Schedulable
    /\ path \in DOMAIN maxBatchTimers /\ Due(maxBatchTimers[path])
    /\ maxBatchTimers' = [maxBatchTimers EXCEPT ![path] = NoTime]
    /\ fileContents' =
           IF path \in DOMAIN fileContents
           THEN [fileContents EXCEPT ![path].forceBatchRecord = TRUE]
           ELSE fileContents
    /\ UNCHANGED <<now, files, settings, run, retryInterval, loadQueue, debouncedTrackers,
                   debouncedUpdaters, failedOperations, operationKeys, tasks, txQueue,
                   unhandled, recovered, dbVars, faults, envEvents, obsVars>>

(***************************************************************************)
(* Completion of vault.read.                                               *)
(***************************************************************************)
ReadOk(t) ==
    /\ tasks[t].pc \in ReadPcs
    /\ files[tasks[t].file].exists
    /\ SetHandlerState(ReadDone(HandlerState, files, t, files[tasks[t].file].content))
    /\ UNCHANGED <<now, files, settings, run, retryInterval, loadQueue, dbVars, faults, envEvents,
                   obsVars>>

\* the file was deleted: the read rejects
ReadGone(t) ==
    /\ tasks[t].pc \in ReadPcs
    /\ ~files[tasks[t].file].exists
    /\ SetHandlerState(Reject(HandlerState, files, t))
    /\ UNCHANGED <<now, files, settings, run, retryInterval, loadQueue, dbVars, faults, envEvents,
                   obsVars>>

\* the read of an existing file fails
ReadFault(t) ==
    /\ tasks[t].pc \in ReadPcs
    /\ files[tasks[t].file].exists
    /\ faults < run.maxFaults
    /\ faults' = faults + 1
    /\ SetHandlerState(Reject(HandlerState, files, t))
    /\ UNCHANGED <<now, files, settings, run, retryInterval, loadQueue, dbVars, envEvents, obsVars>>

(***************************************************************************)
(* The IndexedDB transaction of recordEvent.  Readwrite transactions over   *)
(* the same stores run one at a time, in creation order; what a transaction *)
(* wrote is visible to others only once it completes, and is discarded when *)
(* it aborts.                                                              *)
(***************************************************************************)
Committed == [events |-> file_events, daily |-> daily_stats, stats |-> file_stats]

SetStores(stores) ==
    /\ file_events' = stores.events
    /\ daily_stats' = stores.daily
    /\ file_stats' = stores.stats

\* stores without rollback: what an aborted transaction wrote stays
AbortedStoresKept(committed, uncommitted) == uncommitted

\* the stores after a transaction aborted: what it wrote is rolled back
AbortedStores(committed, uncommitted) == committed

\* transaction.oncomplete: add, daily put and stats put are committed and
\* recordEvent resolves
TxComplete ==
    /\ txQueue # <<>>
    /\ SetStores(RunRequests(Committed, tasks[Head(txQueue)].event, 3))
    /\ SetHandlerState(Resolve([HandlerState EXCEPT !.txq = Tail(@)], files,
                               Head(txQueue)))
    /\ ObserveCommit(tasks[Head(txQueue)].event)
    /\ UNCHANGED <<now, files, settings, run, retryInterval, loadQueue, dbOpen, faults,
                   envEvents, renamesDelivered, delivered, abortedAfter>>

\* a request fails after n requests executed: transaction.onerror, the
\* transaction aborts and recordEvent rejects
TxFault(n) ==
    /\ txQueue # <<>>
    /\ faults < run.maxFaults
    /\ faults' = faults + 1
    /\ SetStores(AbortedStores(Committed,
                               RunRequests(Committed, tasks[Head(txQueue)].event, n)))
    /\ LET t == Head(txQueue)
           S == [HandlerState EXCEPT !.txq = Tail(@)]
       IN  \/ SetHandlerState(Reject(S, files, t))
           \/ \* reject(transaction.error) with the error still null
              /\ tasks[t].pc \in {"retry_create_record", "retry_delete_record"}
              /\ SetHandlerState(RetryFailed(S, files, t, TRUE))
    /\ abortedAfter' = abortedAfter \cup {n}
    /\ UNCHANGED <<now, files, settings, run, retryInterval, loadQueue, dbOpen, envEvents,
                   burst, unflushedSince, renamesDelivered, delivered>>

(***************************************************************************)
(* Time passes once every due timer has fired; an I/O takes less than a     *)
(* tick.                                                                    *)
(***************************************************************************)
NothingDue ==
    /\ \A p \in DOMAIN debouncedTrackers : ~Due(debouncedTrackers[p].due)
    /\ \A p \in DOMAIN debouncedUpdaters : ~Due(debouncedUpdaters[p].due)
    /\ \A p \in DOMAIN maxBatchTimers : ~Due(maxBatchTimers[p])

\* the retry interval has expired at this tick and its callback finds a failed
\* operation that is old enough to be retried
RetryDue ==
    /\ retryInterval.armed /\ ~retryInterval.ran
    /\ \E i \in DOMAIN failedOperations :
           now - failedOperations[i].timestamp >= RETRY_DELAY

\* setInterval(() => this.retryFailedOperations(), 30000); the callback
\* returns at once when failedOperations is empty
RetryFires ==
    /\ Schedulable
    /\ RetryDue
    /\ FreeSlot(HandlerState)
    /\ retryInterval' = [retryInterval EXCEPT !.ran = TRUE]
    /\ SetHandlerState(retryFailedOperations(HandlerState, files,
                                              NewTaskId(HandlerState)))
    /\ UNCHANGED <<now, files, settings, run, loadQueue, dbVars, faults, envEvents,
                   obsVars>>

(***************************************************************************)
(* The plugin is unloaded (main.ts onunload): cleanup, then destroyInstance *)
(* closes the database.  A transaction that is running still completes.     *)
(* The vault listeners stay registered, and a handler that finds the        *)
(* database closed opens it again.                                          *)
(***************************************************************************)
Shutdown ==
    /\ Schedulable
    /\ retryInterval.armed
    /\ SetHandlerState(cleanup(HandlerState))
    /\ retryInterval' = [armed |-> FALSE, ran |-> TRUE]
    /\ dbOpen' = FALSE
    /\ UNCHANGED <<now, files, settings, run, loadQueue, file_events, daily_stats,
                   file_stats, faults, envEvents, obsVars>>

\* indexedDB.open succeeds: request.onsuccess
InitializeDone(t) ==
    /\ tasks[t].pc \in InitializePcs
    /\ dbOpen' = TRUE
    /\ SetHandlerState(Initialized([HandlerState EXCEPT !.db = TRUE], files, t))
    /\ UNCHANGED <<now, files, settings, run, retryInterval, loadQueue, file_events,
                   daily_stats, file_stats, faults, envEvents, obsVars>>

\* indexedDB.open fails: request.onerror
InitializeFault(t) ==
    /\ tasks[t].pc \in InitializePcs
    /\ faults < run.maxFaults
    /\ faults' = faults + 1
    /\ SetHandlerState(Reject(HandlerState, files, t))
    /\ UNCHANGED <<now, files, settings, run, retryInterval, loadQueue, dbVars, envEvents,
                   obsVars>>

\* a read or a transaction that a retry awaits takes 30 s or more: the
\* interval expires again while retryFailedOperations is suspended
TickDuringRetry ==
    /\ now < StartTime + run.maxTime
    /\ loadQueue = <<>>
    /\ \E t \in TaskIds : tasks[t].pc \in {"retry_create_read", "retry_create_record",
                                           "retry_delete_record"}
    /\ NothingDue /\ ~RetryDue
    /\ now' = now + 1
    /\ retryInterval' = [retryInterval EXCEPT !.ran = ~retryInterval.armed]
    /\ UNCHANGED <<files, settings, run, loadQueue, handlerVars, dbVars, faults, envEvents,
                   obsVars>>

Tick ==
    /\ now < StartTime + run.maxTime
    /\ AllIdle
    /\ NothingDue /\ ~RetryDue
    /\ now' = now + 1
    /\ retryInterval' = [retryInterval EXCEPT !.ran = ~retryInterval.armed]
    /\ UNCHANGED <<files, settings, run, loadQueue, handlerVars, dbVars, faults, envEvents,
                   obsVars>>

\* a loaded file is modified and nothing else happens to the vault
Modifying ==
    \/ LoadInitialFileState
    \/ \E f \in FileIds, c \in Contents : VaultModify(f, c)
    \/ \E p \in Paths : TrackerFires(p)
    \/ \E p \in Paths : UpdaterFires(p)
    \/ \E p \in Paths : MaxBatchTimerFires(p)
    \/ \E t \in TaskIds : ReadOk(t)
    \/ TxComplete
    \/ Tick

Reliable ==
    \/ LoadInitialFileState
    \/ \E f \in FileIds, p \in Paths, c \in Contents : VaultCreate(f, p, c)
    \/ \E f \in FileIds, c \in Contents : VaultModify(f, c)
    \/ \E f \in FileIds : VaultDelete(f)
    \/ \E f \in FileIds, p \in Paths : VaultRename(f, p)
    \/ \E p \in Paths : TrackerFires(p)
    \/ \E p \in Paths : UpdaterFires(p)
    \/ \E p \in Paths : MaxBatchTimerFires(p)
    \/ \E t \in TaskIds : ReadOk(t)
    \/ TxComplete
    \/ Tick

\* everything but a failing I/O: the vault, the timers, the retry interval and
\* the unload of the plugin
Faultless ==
    \/ Reliable
    \/ \E t \in TaskIds : ReadGone(t)
    \/ RetryFires
    \/ Shutdown
    \/ \E t \in TaskIds : InitializeDone(t)

Next ==
    \/ Faultless
    \/ \E t \in TaskIds : ReadFault(t)
    \/ \E n \in 0..2 : TxFault(n)
    \/ \E t \in TaskIds : InitializeFault(t)

\* every behaviour of the pipeline, I/O failures included
Spec == Init /\ [][Next]_vars

\* the behaviours of SpecReliable under every setting of the delete and rename
\* tracking, with the reads of deleted files and the retries they lead to
SpecTracking ==
    InitTracking
    /\ [][\/ Reliable
          \/ \E t \in TaskIds : ReadGone(t)
          \/ RetryFires]_vars

\* the behaviours of SpecModify in which a read or a transaction may fail
SpecModifyFaulty ==
    InitModifyFaulty
    /\ [][\/ Modifying
          \/ \E t \in TaskIds : ReadFault(t)
          \/ \E n \in 0..2 : TxFault(n)
          \/ RetryFires]_vars

\* the behaviours of Spec in which no I/O fails, over more vault events
SpecUnload == InitUnload /\ [][Faultless]_vars

\* the listeners over the paths of FilterNames, with every I/O succeeding at
\* once and no time passing
Filtering ==
    \/ LoadInitialFileState
    \/ \E f \in FileIds, p \in FilterNames : VaultCreate(f, p, Hello)
    \/ \E f \in FileIds : VaultModify(f, HelloWorld)
    \/ \E f \in FileIds : VaultDelete(f)
    \/ \E f \in FileIds, p \in FilterNames : VaultRename(f, p)
    \/ \E t \in TaskIds : ReadOk(t)
    \/ TxComplete

SpecFilter == InitFilter /\ [][Filtering]_vars

\* a loaded file is modified under two-level debouncing, where no max batch
\* timer exists
TwoLevel ==
    \/ LoadInitialFileState
    \/ \E f \in FileIds, c \in Contents : VaultModify(f, c)
    \/ \E p \in Paths : TrackerFires(p)
    \/ \E p \in Paths : UpdaterFires(p)
    \/ \E t \in TaskIds : ReadOk(t)
    \/ TxComplete
    \/ Tick

SpecTwoLevel == InitTwoLevel /\ [][TwoLevel]_vars

\* the retry interval over the failed operations the handler holds, with
\* reads and transactions that succeed or fail; no vault event arrives
SpecLedger ==
    InitLedger
    /\ [][\/ LoadInitialFileState
          \/ RetryFires
          \/ \E t \in TaskIds : ReadOk(t)
          \/ \E t \in TaskIds : ReadFault(t)
          \/ TxComplete
          \/ \E n \in 0..2 : TxFault(n)
          \/ Tick]_vars

\* the retry interval over one failed operation for more than an hour, with
\* reads that succeed or fail and transactions that complete or fail at their
\* first request
SpecCeiling ==
    InitCeiling
    /\ [][\/ LoadInitialFileState
          \/ RetryFires
          \/ \E t \in TaskIds : ReadOk(t)
          \/ \E t \in TaskIds : ReadFault(t)
          \/ TxComplete
          \/ TxFault(0)
          \/ Tick]_vars

\* a full failedOperations, the retry interval, and a create event whose
\* handler may fail
SpecCap ==
    InitCap
    /\ [][\/ LoadInitialFileState
          \/ \E f \in FileIds, p \in Paths, c \in Contents : VaultCreate(f, p, c)
          \/ RetryFires
          \/ \E t \in TaskIds : ReadOk(t)
          \/ \E t \in TaskIds : ReadFault(t)
          \/ TxComplete
          \/ TxFault(0)
          \/ Tick]_vars

\* the behaviours of SpecLedger and those in which an I/O of a retry outlasts
\* the interval
SpecOverlap ==
    InitLedger
    /\ [][\/ LoadInitialFileState
          \/ RetryFires
          \/ \E t \in TaskIds : ReadOk(t)
          \/ \E t \in TaskIds : ReadFault(t)
          \/ TxComplete
          \/ \E n \in 0..2 : TxFault(n)
          \/ Tick
          \/ TickDuringRetry]_vars

\* the behaviours in which every I/O succeeds at once
SpecReliable == InitReliable /\ [][Reliable]_vars

\* the behaviours of SpecReliable in which the vault's files are only modified
SpecModify == InitModify /\ [][Modifying]_vars
(***************************************************************************)
(* Properties.                                                             *)
(***************************************************************************)
EventIds == DOMAIN file_events

EventsOn(date) == Cardinality({i \in EventIds : file_events[i].date = date})

EventsAt(path) == Cardinality({i \in EventIds : file_events[i].filePath = path})

RecordsOf(path) == SelectSeq(file_events, LAMBDA e : e.filePath = path)

\* every handler has returned and every transaction has ended
Settled == AllIdle /\ txQueue = <<>> /\ NothingDue

\* this step commits a record
Commits == Len(file_events') = Len(file_events) + 1

NewRecord == file_events'[Len(file_events')]

\* C1: recordEvent applies the event append, the daily-stats upsert and the
\* file-stats upsert of one record as one atomic transaction: in every state
\* each stored event is counted in the daily stats of its date and in the file
\* stats of its path, and nothing else is, also after a transaction failed
\* part-way.
C1_CommitIsAtomic ==
    /\ DOMAIN daily_stats = {file_events[i].date : i \in EventIds}
    /\ DOMAIN file_stats = {file_events[i].filePath : i \in EventIds}
    /\ \A d \in DOMAIN daily_stats : daily_stats[d].totalEvents = EventsOn(d)
    /\ \A p \in DOMAIN file_stats : file_stats[p].totalEdits = EventsAt(p)

\* a transaction aborted after its add and its daily-stats put had executed,
\* and another one committed
C1_Witness == 2 \in abortedAfter /\ file_events # <<>>

\* C2: for every date that has daily stats, totalEvents is the sum of the four
\* eventCounts.
C2_TotalIsSumOfCounts ==
    \A d \in DOMAIN daily_stats :
        daily_stats[d].totalEvents =
            daily_stats[d].eventCounts["create"] + daily_stats[d].eventCounts["modify"]
              + daily_stats[d].eventCounts["delete"] + daily_stats[d].eventCounts["rename"]

\* a date with two committed records of different kinds
C2_Witness ==
    \E d \in DOMAIN daily_stats :
        /\ daily_stats[d].totalEvents = 2
        /\ \E j, k \in EventTypes :
              /\ j # k
              /\ daily_stats[d].eventCounts[j] = 1
              /\ daily_stats[d].eventCounts[k] = 1

\* C3: committing a Modify record of a path rotates its PendingFileChange:
\* right after the commit the accumulated added and removed are zero and the
\* Before counts are the After counts of the record.
C3_FlushRotatesPending ==
    [][\A p \in Paths :
          (/\ Commits
           /\ NewRecord.eventType = "modify"
           /\ NewRecord.filePath = p
           /\ p \in DOMAIN fileContents')
          => LET acc == fileContents'[p].accumulatedChanges
             IN  /\ acc.added = 0
                 /\ acc.removed = 0
                 /\ acc.wordCountBefore = NewRecord.contentDiff.wordCountAfter
                 /\ acc.charCountBefore = NewRecord.contentDiff.charCountAfter]_vars

\* C4: the modify events of a path that arrive within an interval shorter than
\* the content-sampling debounce and are followed by quiet commit exactly one
\* Modify record: never more than one, and one once the path is quiet.
C4_OneRecordPerBurst ==
    \A p \in Paths :
        (burst[p].n >= 1
           /\ burst[p].last - burst[p].start < contentTrackingDebounceInterval)
        => /\ burst[p].recs <= 1
           /\ (Settled /\ Quiet(p)) => burst[p].recs = 1

\* C5: the one Modify record of such a burst reports as added and removed the
\* sums of the length increases and decreases of the burst's edits.
C5_DeltaIsSumOfEdits ==
    \A p \in Paths :
        (burst[p].n >= 1
           /\ burst[p].clean
           /\ burst[p].last - burst[p].start < contentTrackingDebounceInterval
           /\ burst[p].recs = 1)
        => LET r == RecordsOf(p)
           IN  /\ r[Len(r)].contentDiff.added = burst[p].added
               /\ r[Len(r)].contentDiff.removed = burst[p].removed

\* the records of path are a Create and then the Modify of one modify event
\* that arrived within the debounce window after the Create
CreatedThenModified(p) ==
    LET r == RecordsOf(p)
    IN  /\ Len(r) = 2
        /\ r[1].eventType = "create"
        /\ r[2].eventType = "modify"
        /\ burst[p].n = 1
        /\ burst[p].start - r[1].timestamp < contentTrackingDebounceInterval

\* C6: after the Create of a path with 5 characters was recorded, a modify to
\* 11 characters yields a Modify record with added = 6 and removed = 0.
C6_ModifyCountsSinceCreate ==
    \A p \in Paths :
        (/\ CreatedThenModified(p)
         /\ RecordsOf(p)[1].contentDiff.charCountAfter = 5
         /\ RecordsOf(p)[2].contentDiff.charCountAfter = 11)
        => /\ RecordsOf(p)[2].contentDiff.added = 6
           /\ RecordsOf(p)[2].contentDiff.removed = 0

\* C7: after a Create record and one Modify record of a path its file stats
\* have totalEdits = 1.
C7_CreateIsNotAnEdit ==
    \A p \in Paths : CreatedThenModified(p) => file_stats[p].totalEdits = 1

\* C8: committing a Rename from P to Q moves the file stats of P to Q: Q has
\* the totalEdits, totalAdded and totalRemoved P had, and P has none left.
C8_RenameMovesFileStats ==
    [][(/\ Commits
        /\ NewRecord.eventType = "rename"
        /\ NewRecord.oldPath \in DOMAIN file_stats
        /\ NewRecord.filePath \notin DOMAIN file_stats)
       => LET P == NewRecord.oldPath
              Q == NewRecord.filePath
          IN  /\ Q \in DOMAIN file_stats'
              /\ file_stats'[Q].totalEdits = file_stats[P].totalEdits
              /\ file_stats'[Q].totalAdded = file_stats[P].totalAdded
              /\ file_stats'[Q].totalRemoved = file_stats[P].totalRemoved
              /\ P \notin DOMAIN file_stats']_vars

\* C9: every trackable rename of a non-transient path commits one Rename
\* record: when no I/O failed and every handler has returned, there are as
\* many Rename records as renames delivered.
C9_EveryRenameIsRecorded ==
    (faults = 0 /\ Settled)
    => Cardinality({i \in EventIds : file_events[i].eventType = "rename"})
         = renamesDelivered

\* C10: under inactivity batching a modification of a path is flushed by the
\* time the maximum batch duration, and the inactivity threshold the next
\* modify may take to arrive, have passed.
C10_MaxDurationForcesFlush ==
    \A p \in Paths :
        (settings.modifyBatchingEnabled /\ unflushedSince[p] # NoTime /\ Settled)
        => now - unflushedSince[p] <= modifyMaxBatchDuration + modifyInactivityThreshold

\* C19: every path with a committed Modify record has file stats with
\* totalEdits >= 1, totalAdded >= 0 and totalRemoved >= 0.
C19_ModifiedPathHasStats ==
    \A i \in EventIds :
        file_events[i].eventType = "modify"
        => LET P == file_events[i].filePath
           IN  /\ P \in DOMAIN file_stats
               /\ file_stats[P].totalEdits >= 1
               /\ file_stats[P].totalAdded >= 0
               /\ file_stats[P].totalRemoved >= 0

\* a Modify record that removed characters is the only record of its path
C19_Witness ==
    \E i \in EventIds :
        /\ file_events[i].eventType = "modify"
        /\ file_events[i].contentDiff.removed > 0
        /\ Len(RecordsOf(file_events[i].filePath)) = 1

\* C20: the file_events store is append-only: every step keeps the stored
\* records, in their order, and at most adds records after them.
C20_EventsAppendOnly ==
    [][/\ Len(file_events') >= Len(file_events)
       /\ SubSeq(file_events', 1, Len(file_events)) = file_events]_vars

\* two records of one path with one timestamp are stored
C20_Witness ==
    \E i, j \in EventIds :
        /\ i < j
        /\ file_events[i].filePath = file_events[j].filePath
        /\ file_events[i].timestamp = file_events[j].timestamp

\* C17: a step of loadInitialFileStates only seeds a baseline: it commits no
\* record, changes no statistics, arms no timer and adds no failed operation,
\* and the PendingFileChange of a file it could read has added = 0 and
\* removed = 0.
C17_LoadOnlySeedsBaselines ==
    [][loadQueue' # loadQueue
       => LET file == Head(loadQueue)
              P == files[file].path
          IN  /\ UNCHANGED <<file_events, daily_stats, file_stats, txQueue>>
              /\ UNCHANGED <<debouncedTrackers, debouncedUpdaters, maxBatchTimers>>
              /\ UNCHANGED failedOperations
              /\ files[file].exists
                 => /\ P \in DOMAIN fileContents'
                    /\ fileContents'[P].accumulatedChanges.added = 0
                    /\ fileContents'[P].accumulatedChanges.removed = 0]_vars

\* the load has read a file with content and stored its baseline
C17_Witness ==
    /\ loadQueue = <<>>
    /\ \E p \in DOMAIN fileContents :
           /\ fileContents[p].accumulatedChanges.charCountBefore = 0
           /\ fileContents[p].accumulatedChanges.charCountAfter > 0
           /\ fileContents[p].accumulatedChanges.added = 0

(***************************************************************************)
(* ActivityDatabase.exportEvents.  An option that is left out is NoTime    *)
(* (startDate, endDate) or the empty set (includeTypes).                   *)
(***************************************************************************)
\* the error of a method called while db is null
NotInitialized == [error |-> "Database not initialized"]

\* a number in a JavaScript condition: undefined and 0 are false
Truthy(n) == n # NoTime /\ n # 0

ExportDates == {NoTime, 0, StartTime, StartTime + 1, StartTime + 2}

ExportOptions ==
    [format : {"csv"}, startDate : ExportDates, endDate : ExportDates,
     includeTypes : SUBSET EventTypes]

getEventsForExport(options) ==
    LET all == file_events
        ranged ==
            IF Truthy(options.startDate) /\ Truthy(options.endDate)
            THEN SelectSeq(all, LAMBDA event :
                     /\ event.timestamp >= options.startDate
                     /\ event.timestamp <= options.endDate)
            ELSE all
    IN  IF options.includeTypes # {}
        THEN SelectSeq(ranged, LAMBDA event : event.eventType \in options.includeTypes)
        ELSE ranged

\* String(row[field] || ''): a number 0 gives the empty cell
CsvNumber(value) == IF value = 0 THEN <<>> ELSE <<value>>

\* event.oldPath || '', and String(row[field] || ''): a missing or empty text
\* gives the empty cell
CsvText(value) == IF value = NoPath THEN <<>> ELSE <<value>>

\* the lines of the CSV text: the header and one line per event
convertToCSV(events) ==
    LET defaultFields == <<"timestamp", "eventType", "filePath", "oldPath",
                           "added", "removed">>
        row(event) == <<<<"ISO", event.timestamp>>, CsvText(event.eventType),
                        CsvText(event.filePath), CsvText(event.oldPath),
                        CsvNumber(event.contentDiff.added),
                        CsvNumber(event.contentDiff.removed)>>
    IN  <<defaultFields>> \o [i \in 1..Len(events) |-> row(events[i])]

exportEvents(options) ==
    IF ~dbOpen THEN NotInitialized
    ELSE [lines |-> convertToCSV(getEventsForExport(options))]

\* the timestamp lies in the range the options ask for
InRequestedRange(timestamp, options) ==
    /\ options.startDate # NoTime => timestamp >= options.startDate
    /\ options.endDate # NoTime => timestamp <= options.endDate

\* C18: a CSV export for the kinds K has the header row and one data row for
\* every stored record in the requested range whose kind is in K.
C18_CsvRowPerRecordInRange ==
    dbOpen
    => \A options \in ExportOptions :
           options.includeTypes # {}
           => Len(exportEvents(options).lines)
                = 1 + Cardinality({i \in EventIds :
                          /\ InRequestedRange(file_events[i].timestamp, options)
                          /\ file_events[i].eventType \in options.includeTypes})

\* C14: no failure of the content reader or of the database propagates out
\* of a vault listener or a timer callback: every rejection is caught by a
\* catch block of the handler it occurs in.
C14_NoFailureEscapes == unhandled = 0

\* a debounced callback has failed and its catch block has stored the failure,
\* and a listener has failed on the closed database
C14_Witness ==
    /\ \E i \in DOMAIN failedOperations :
           failedOperations[i].operation \in {"content-track", "db-update"}
    /\ \E i \in DOMAIN failedOperations :
           failedOperations[i].operation \in {"create", "delete", "rename"}

(***************************************************************************)
(* The query methods of ActivityDatabase.                                  *)
(***************************************************************************)
getDailyStats(date) ==
    IF ~dbOpen THEN NotInitialized
    ELSE [result |-> IF date \in DOMAIN daily_stats THEN <<daily_stats[date]>> ELSE <<>>]

getFileStats(filePath) ==
    IF ~dbOpen THEN NotInitialized
    ELSE [result |-> IF filePath \in DOMAIN file_stats THEN <<file_stats[filePath]>>
                     ELSE <<>>]

\* index.getAll(IDBKeyRange.bound(startTime, endTime)); bound() throws when
\* startTime > endTime
getEventsInTimeRange(startTime, endTime) ==
    IF ~dbOpen THEN NotInitialized
    ELSE IF startTime > endTime THEN [error |-> "DataError"]
    ELSE [result |-> SelectSeq(file_events, LAMBDA event :
                         event.timestamp >= startTime /\ event.timestamp <= endTime)]

getAllEvents == IF ~dbOpen THEN NotInitialized ELSE [result |-> file_events]

getAllFileStats ==
    IF ~dbOpen THEN NotInitialized
    ELSE [result |-> {file_stats[p] : p \in DOMAIN file_stats}]

\* every query fails with the error of a database that is not initialized
QueriesFail ==
    /\ \A startTime, endTime \in ExportDates :
           getEventsInTimeRange(startTime, endTime) = NotInitialized
    /\ getAllEvents = NotInitialized
    /\ \A date \in {eventDate(StartTime), eventDate(StartTime + MaxTime)} :
           getDailyStats(date) = NotInitialized
    /\ \A filePath \in Paths : getFileStats(filePath) = NotInitialized
    /\ getAllFileStats = NotInitialized
    /\ \A options \in ExportOptions : exportEvents(options) = NotInitialized

\* in this step recordEvent has accepted the write of task t: the task now
\* awaits its transaction
Accepted(t) ==
    /\ tasks'[t].pc \in RecordPcs
    /\ <<tasks'[t].pc, tasks'[t].event, tasks'[t].operations>>
         # <<tasks[t].pc, tasks[t].event, tasks[t].operations>>

\* C15: while the database is closed every query fails with 'Database not
\* initialized', and recordEvent accepts no write: a write is queued for the
\* stores only in a step that ends with the database open, so a write issued
\* on the closed database changes none of the three stores.
C15_ClosedDatabaseRefuses ==
    /\ [](~dbOpen => QueriesFail)
    /\ [][\A t \in TaskIds : Accepted(t) => dbOpen']_vars

\* the database is closed, records are stored, and a debounced recorder that
\* read its file has been refused
C15_Witness ==
    /\ ~dbOpen /\ faults = 0 /\ file_events # <<>>
    /\ \E i \in DOMAIN failedOperations :
           /\ failedOperations[i].operation = "db-update"
           /\ FilesAt(files, failedOperations[i].filePath) # {}

\* a timer of path is armed: a debounced function that is waiting, or a max
\* batch timer that has not expired
Armed(path) ==
    \/ path \in DOMAIN debouncedTrackers /\ debouncedTrackers[path].due # NoTime
    \/ path \in DOMAIN debouncedUpdaters /\ debouncedUpdaters[path].due # NoTime
    \/ path \in DOMAIN maxBatchTimers /\ maxBatchTimers[path] # NoTime

\* C16: when the plugin's unload has run cleanup and destroyInstance, no
\* timer of any path and no retry interval is armed and the database is
\* closed.
C16_ShutdownDisarmsEverything ==
    [][(dbOpen /\ ~dbOpen')
       => /\ \A p \in Paths : ~Armed(p)'
          /\ ~retryInterval'.armed
          /\ ~dbOpen']_vars

\* this step is the failure of the transaction at the head of the queue
TxFails == faults' = faults + 1 /\ abortedAfter' # abortedAfter

\* C13: when the transaction of a Create, Modify, Delete or Rename record
\* fails, the handler stores exactly one failed operation and returns: it
\* makes no second attempt of its own.
C13_NoInlineRetry ==
    [][(/\ TxFails
        /\ tasks[Head(txQueue)].pc \in {"create_record", "force_record", "updater_record",
                                        "updater2_record", "delete_record",
                                        "rename_record"})
       => /\ Len(failedOperations') = Len(failedOperations) + 1
          /\ tasks'[Head(txQueue)].pc = "idle"]_vars

RecordsOfType(eventType) ==
    Cardinality({i \in EventIds : file_events[i].eventType = eventType})

StoresFailed(path) ==
    /\ Len(failedOperations') > Len(failedOperations)
    /\ failedOperations'[Len(failedOperations')].filePath = path

\* C11: once the delete or rename event of a path has been delivered, and
\* while no file has the path, no timer armed for the path before the event
\* flushes: no step commits a record of the path other than the Delete of
\* the event, and no step stores a failed operation of the path other than
\* the failed Delete.  Every I/O completes before the next event or timer, so
\* that a flush after the event is the work of a timer.
C11_NoStaleFlush ==
    [][\A p \in Paths :
          (FilesAt(files, p) = {} /\ FilesAt(files', p) = {})
          => /\ (Commits /\ NewRecord.filePath = p) => NewRecord.eventType = "delete"
             /\ StoresFailed(p)
                => failedOperations'[Len(failedOperations')].operation = "delete"]_vars

(***************************************************************************)
(* The content totals of a day, as the summary commands read them.         *)
(***************************************************************************)
\* stats.totalAdded || 0, stats.totalRemoved || 0: a property the stored row
\* does not have reads as undefined
DailyTotal(stats, field) == IF field \in DOMAIN stats THEN stats[field] ELSE 0

\* events.reduce((sum, event) => sum + (event.contentDiff?.[field] || 0), 0)
\* over the events of one date
RECURSIVE SumDiff(_, _, _)
SumDiff(events, date, field) ==
    IF events = <<>> THEN 0
    ELSE (IF Head(events).date = date THEN Head(events).contentDiff[field] ELSE 0)
           + SumDiff(Tail(events), date, field)

\* C21: the daily stats of every date keep running content totals: totalAdded
\* and totalRemoved are the sums of contentDiff.added and contentDiff.removed
\* over the events recorded on that date.
C21_DailyTotalsAreSums ==
    \A d \in DOMAIN daily_stats :
        /\ DailyTotal(daily_stats[d], "totalAdded") = SumDiff(file_events, d, "added")
        /\ DailyTotal(daily_stats[d], "totalRemoved") = SumDiff(file_events, d, "removed")

\* C22: the events of one path are processed in delivery order: while the
\* handler of an earlier event of a file is suspended at its content read,
\* before any of its effects, the handler of a later event of the same file
\* neither changes a PendingFileChange nor hands a record to the database.
C22_PerPathFifo ==
    [][\A f \in FileIds :
          (/\ envEvents' # envEvents
           /\ files'[f] # files[f]
           /\ \E t \in TaskIds :
                 /\ tasks[t].file = f
                 /\ tasks[t].pc \in {"create_read", "modify_init_read", "force_read"})
          => (fileContents' = fileContents /\ txQueue' = txQueue)]_vars

(***************************************************************************)
(* The filter of the listeners.                                            *)
(***************************************************************************)
\* DashboardGenerator.normalizePath: the path generateDashboard writes to
normalizePath(path) == IF path = "/Activity Dashboard.md" THEN "Activity Dashboard.md" ELSE path

\* C23: shouldTrackEvent is the seven-step short-circuit filter for every
\* kind, path and settings value: (1) tracking disabled: false; (2) the path
\* is the dashboard output path: false; (3) a transient (Untitled) path: true
\* exactly for create and rename; (4) the flag of the kind is off: false;
\* (5) a non-empty include list that matches nothing: false; (6) an exclude
\* list that matches: false; (7) otherwise true.
C23_FilterIsSevenSteps ==
    \A kind \in EventTypes, path \in FilterNames :
        LET flag == [create |-> settings.trackFileCreation,
                     modify |-> settings.trackFileModification,
                     delete |-> settings.trackFileDeletion,
                     rename |-> settings.trackFileRename]
            includePaths == settings.activityTrackingIncludePaths
            excludePaths == settings.activityTrackingExcludePaths
        IN  shouldTrackEvent(kind, path) =
                IF ~settings.enableActivityTracking THEN FALSE
                ELSE IF path = normalizePath(settings.dashboardPath) THEN FALSE
                ELSE IF isUntitledFile(path) THEN kind \in {"create", "rename"}
                ELSE IF ~flag[kind] THEN FALSE
                ELSE IF includePaths # {}
                        /\ \A p \in includePaths : ~PathIncludes(path, p) THEN FALSE
                ELSE IF \E p \in excludePaths : PathIncludes(path, p) THEN FALSE
                ELSE TRUE

\* C24: every trackable delete event results in exactly one committed Delete
\* record, also for a path that has no PendingFileChange (a zero-delta
\* record): once the handlers have returned and the transactions have ended,
\* there are as many Delete records as delete events passed the filter.
C24_EveryDeleteIsRecorded ==
    (AllIdle /\ txQueue = <<>>) => RecordsOfType("delete") = delivered.delete

\* C25: a rename whose old path is a transient (Untitled) one is recorded as
\* a create at the new path: the record committed for it has the kind create,
\* no old path, added equal to the length of the last known content, removed
\* zero and the word and character counts before at zero.
C25_UntitledRenameIsCreate ==
    [][\A t \in TaskIds :
          (/\ Commits
           /\ Head(txQueue) = t
           /\ tasks[t].pc = "rename_record"
           /\ isUntitledFile(tasks[t].oldPath))
          => LET path == files[tasks[t].file].path
             IN  /\ NewRecord.eventType = "create"
                 /\ NewRecord.filePath = path
                 /\ NewRecord.oldPath = NoPath
                 /\ path \in DOMAIN fileContents
                 /\ NewRecord.contentDiff.added = Len(fileContents[path].content)
                 /\ NewRecord.contentDiff.removed = 0
                 /\ NewRecord.contentDiff.wordCountBefore = 0
                 /\ NewRecord.contentDiff.charCountBefore = 0]_vars

\* Untitled.md was created and then renamed: the one create event has its
\* record at Untitled.md, and the rename has a second create record at a
\* name that is not transient
C25_Witness ==
    /\ delivered.create = 1
    /\ RecordsOfType("create") = 2
    /\ \E i \in EventIds :
          /\ ~isUntitledFile(file_events[i].filePath)
          /\ file_events[i].contentDiff.added = Len(Hello)

\* C26: a rename transfers the timers in flight: when a rename from P to Q is
\* processed while P has accumulated changes that are in no record yet (its
\* modification has been sampled) and an armed debounced recorder, a debounced
\* recorder is armed for Q afterwards, so that the flush comes without a
\* further event on Q.
C26_RenameTransfersTimers ==
    [][\A f \in FileIds :
          LET P == files[f].path
              Q == files'[f].path
          IN  (/\ files[f].exists /\ files'[f].exists /\ Q # P
               /\ shouldTrackEvent("rename", Q) \/ shouldTrackEvent("rename", P)
               /\ dbOpen
               /\ P \in DOMAIN fileContents
               /\ unflushedSince[P] # NoTime
               /\ fileContents[P].content = files[f].content
               /\ fileContents[P].accumulatedChanges.added > 0
               /\ P \in DOMAIN debouncedUpdaters
               /\ debouncedUpdaters[P].due # NoTime)
              => /\ Q \in DOMAIN fileContents'
                 /\ Q \in DOMAIN debouncedUpdaters'
                 /\ debouncedUpdaters'[Q].due # NoTime]_vars

\* C27: a rename preserves the PendingFileChange in flight: when a tracked
\* rename from P to Q is processed for a P that has a PendingFileChange, the
\* handler records it, and afterwards Q has the PendingFileChange P had (its
\* content and its accumulated counters), P has none, and the
\* PendingFileChange of every other path is as it was.  (A handler that waited
\* for the database to open finds the path the file has by then; Q is that
\* path, and the claim is about a Q other than P.)
C27_RenameKeepsPending ==
    [][/\ \A f \in FileIds :
             (/\ files[f].exists /\ files'[f].exists
              /\ files'[f].path # files[f].path
              /\ shouldTrackEvent("rename", files'[f].path)
                   \/ shouldTrackEvent("rename", files[f].path)
              /\ dbOpen
              /\ files[f].path \in DOMAIN fileContents)
             => \E t \in TaskIds :
                    /\ tasks[t].pc = "idle"
                    /\ tasks'[t].pc = "rename_record"
                    /\ tasks'[t].oldPath = files[f].path
       /\ \A t \in TaskIds :
             (/\ tasks[t].pc # "rename_record" /\ tasks'[t].pc = "rename_record"
              /\ tasks'[t].event.filePath # tasks'[t].oldPath)
             => LET P == tasks'[t].oldPath
                    Q == tasks'[t].event.filePath
                IN  /\ P \in DOMAIN fileContents
                    /\ Q \in DOMAIN fileContents'
                    /\ fileContents'[Q] = fileContents[P]
                    /\ P \notin DOMAIN fileContents'
                    /\ DOMAIN fileContents' \ {Q} = DOMAIN fileContents \ {P, Q}
                    /\ \A R \in DOMAIN fileContents \ {P, Q} :
                           fileContents'[R] = fileContents[R]]_vars

\* a rename is being recorded whose path had sampled, unrecorded changes: they
\* are in the PendingFileChange of the new path
C27_Witness ==
    \E t \in TaskIds :
        /\ tasks[t].pc = "rename_record"
        /\ tasks[t].oldPath \notin DOMAIN fileContents
        /\ tasks[t].event.filePath \in DOMAIN fileContents
        /\ fileContents[tasks[t].event.filePath].accumulatedChanges.added > 0
        /\ fileContents[tasks[t].event.filePath].content = Hello

\* C28: a flush forced by the maximum batch duration starts a new batch
\* window at once: when the forced flush of P has committed its record,
\* forceBatchRecord is false, batchStartTime is the time of the flush and a
\* new max batch timer is armed for P; and no later edit is discarded: a
\* modification that is in no record yet has a handler in flight or an armed
\* debounced recorder that will commit it.
C28_ForcedFlushRestartsBatch ==
    /\ [][\A t \in TaskIds :
             (Commits /\ Head(txQueue) = t /\ tasks[t].pc = "force_record")
             => LET P == tasks[t].filePath
                IN  /\ P \in DOMAIN fileContents'
                    /\ ~fileContents'[P].forceBatchRecord
                    /\ fileContents'[P].batchStartTime = now
                    /\ NewRecord.timestamp = now
                    /\ P \in DOMAIN maxBatchTimers'
                    /\ maxBatchTimers'[P] = now + modifyMaxBatchDuration]_vars
    /\ [](\A P \in Paths :
             (unflushedSince[P] # NoTime /\ AllIdle /\ txQueue = <<>>)
             => /\ P \in DOMAIN debouncedUpdaters
                /\ debouncedUpdaters[P].due # NoTime)

\* a forced flush of a.md has committed its record at the tick of the modify
\* event that triggered it, and a.md has been modified again since: the new
\* content is not sampled yet and the debounced recorder is armed for it
C28_Witness ==
    /\ AllIdle /\ txQueue = <<>>
    /\ "a.md" \in DOMAIN fileContents
    /\ burst["a.md"].recs >= 1
    /\ burst["a.md"].last = fileContents["a.md"].batchStartTime
    /\ \E i \in EventIds : file_events[i].timestamp = burst["a.md"].last
    /\ files[1].content # fileContents["a.md"].content
    /\ unflushedSince["a.md"] # NoTime
    /\ debouncedUpdaters["a.md"].due = now + modifyInactivityThreshold
    /\ maxBatchTimers["a.md"] = now + modifyMaxBatchDuration

\* C29: under two-level debouncing, for every configured pair of intervals,
\* when the debounced recorder of P fires the PendingFileChange it flushes
\* reflects a sample taken after the most recent modify event of P: the
\* debounced tracker that event armed has fired and its read has returned.
C29_WriteSeesLatestSample ==
    [][\A P \in Paths :
          (/\ ~settings.modifyBatchingEnabled
           /\ P \in DOMAIN debouncedUpdaters /\ P \in DOMAIN debouncedUpdaters'
           /\ debouncedUpdaters[P].due # NoTime
           /\ debouncedUpdaters'[P].due = NoTime)
          => /\ P \in DOMAIN debouncedTrackers
             /\ debouncedTrackers[P].due = NoTime
             /\ \A t \in TaskIds :
                   ~(tasks[t].pc = "tracker_read" /\ tasks[t].filePath = P)
             /\ P \in DOMAIN fileContents
             /\ \A f \in FileIds :
                   (files[f].exists /\ files[f].path = P)
                   => fileContents[P].content = files[f].content]_vars

\* C30: the content sampler accumulates: every sample of a path that has a
\* PendingFileChange adds the length increase since the previous sample to
\* accumulated added or the length decrease to accumulated removed, sets
\* wordCountAfter and charCountAfter to the counts of the sampled content,
\* leaves wordCountBefore and charCountBefore as they were, and stores the
\* sampled content; so over a sequence of samples added and removed grow by
\* the sums of the positive and of the negative length differences of
\* consecutive samples.
C30_SamplerAccumulates ==
    [][\A t \in TaskIds :
          (/\ tasks[t].pc \in {"tracker_read", "updater_read", "force_read"}
           /\ tasks'[t].pc # tasks[t].pc
           /\ files[tasks[t].file].path \in DOMAIN fileContents)
          => LET P == files[tasks[t].file].path
                 new == files[tasks[t].file].content
                 old == fileContents[P]
                 lengthDelta == Len(new) - Len(old.content)
                 acc == fileContents'[P].accumulatedChanges
             IN  /\ acc.added = old.accumulatedChanges.added + Max(0, lengthDelta)
                 /\ acc.removed = old.accumulatedChanges.removed + Max(0, 0 - lengthDelta)
                 /\ acc.wordCountAfter = countWords(new)
                 /\ acc.charCountAfter = Len(new)
                 /\ acc.wordCountBefore = old.accumulatedChanges.wordCountBefore
                 /\ acc.charCountBefore = old.accumulatedChanges.charCountBefore
                 /\ fileContents'[P].content = new]_vars

\* within one batch a.md ("hi") was sampled as "hello world" and then as
\* "hello": 9 characters added, 6 removed, the counts after are those of
\* "hello"
C30_Witness ==
    /\ RecordsOfType("modify") = 0
    /\ "a.md" \in DOMAIN fileContents
    /\ fileContents["a.md"].content = Hello
    /\ fileContents["a.md"].accumulatedChanges =
           Accumulated(9, 6, 0, 1, 0, 5)

(***************************************************************************)
(* Failures of the content sample.                                         *)
(***************************************************************************)
\* in this step the vault.read that samples the content for task t rejects:
\* the file is gone or the read of the existing file fails
SampleFails(t) ==
    /\ tasks[t].pc \in {"tracker_read", "updater_read", "force_read", "fallback_read"}
    /\ tasks'[t].pc # tasks[t].pc
    /\ faults' = faults + 1 \/ ~files[tasks[t].file].exists

\* C31: when the read of a content sample fails the sample is skipped: the
\* step leaves every PendingFileChange (content and accumulated changes) as
\* it was, commits no record and queues no record for the stores.
C31_FailedSampleIsSkipped ==
    [][\A t \in TaskIds :
          SampleFails(t)
          => /\ fileContents' = fileContents
             /\ file_events' = file_events
             /\ txQueue' = txQueue]_vars

\* the read of the debounced content tracker of an existing file has failed,
\* and the PendingFileChange of the path still holds the content of before
C31_Witness ==
    \E i \in DOMAIN failedOperations :
        LET path == failedOperations[i].filePath
        IN  /\ failedOperations[i].operation = "content-track"
            /\ faults = 1
            /\ path \in DOMAIN fileContents
            /\ \E f \in FilesAt(files, path) : fileContents[path].content # files[f].content

(***************************************************************************)
(* The retry interval.                                                     *)
(***************************************************************************)
\* in this step the callback of the retry interval runs over failed
\* operations that are old enough to be retried
RetryRuns ==
    /\ retryInterval.armed /\ ~retryInterval.ran
    /\ retryInterval'.armed /\ retryInterval'.ran

\* C32: when the interval calls retryFailedOperations and the database is not
\* initialized, the whole cycle is skipped: no failed operation is retried,
\* removed or changed, no handler is started, and nothing is queued for or
\* committed to the stores.
C32_ClosedDatabaseSkipsCycle ==
    [][(RetryRuns /\ ~dbOpen)
       => UNCHANGED <<failedOperations, operationKeys, tasks, txQueue, fileContents,
                      recovered, dbVars>>]_vars

\* the interval has run at this tick over a failed operation that was old
\* enough, with the database not initialized
C32_Witness ==
    /\ ~dbOpen
    /\ retryInterval.armed /\ retryInterval.ran
    /\ now > StartTime
    /\ \E i \in DOMAIN failedOperations :
           /\ now - failedOperations[i].timestamp >= RETRY_DELAY
           /\ failedOperations[i].operation \in {"create", "delete"}

\* C33: the failed operation that the failed transaction of a Modify flush
\* stores ("db-update") is recoverable: it leaves failedOperations as a
\* success only once a retry has committed a record for it.  When the one
\* failure of the run was a transaction's, a step in which the operation of an
\* existing, not skipped file leaves failedOperations has the operation among
\* those a retry has recorded.
C33_FlushFailureIsRecovered ==
    [][\A i \in DOMAIN failedOperations :
          LET operation == failedOperations[i]
          IN  (/\ operation.operation = "db-update"
               /\ abortedAfter # {}
               /\ FilesAt(files, operation.filePath) # {}
               /\ ~shouldSkip(operation.filePath)
               /\ \A j \in DOMAIN failedOperations' :
                      failedOperations'[j].key # operation.key)
              => \E k \in DOMAIN recovered' : recovered'[k] = operation.key]_vars

\* C34: a failed operation whose retries keep failing is dropped once it is
\* older than the hard ceiling of one hour: when more than an hour has passed
\* since the failed operations of the initial state were stored, none of them
\* is left in failedOperations (no operation is stored later in these runs).
C34_HardCeilingDrops ==
    now - StartTime > HardCeiling => failedOperations = <<>>

C36_CancellationIsAtomic ==
    \A p \in Paths :
        (/\ AllIdle /\ txQueue = <<>>
         /\ retryInterval.armed /\ faults = 0
         /\ FilesAt(files, p) = {})
        => /\ p \notin DOMAIN fileContents
           /\ ~Armed(p)

\* C37: a file created under a transient name (Untitled.md) and renamed later
\* has one Create record in all, the one its rename commits at the real path:
\* the create event of the transient path only seeds the PendingFileChange,
\* so no transaction of the create handler commits a record of a transient path.
C37_TransientCreateCommitsNothing ==
    [][(Commits /\ tasks[Head(txQueue)].pc = "create_record")
       => ~isUntitledFile(NewRecord.filePath)]_vars

\* the keys of the failed operations the suspended retries are retrying
Retrying(t) ==
    IF tasks[t].pc \in {"retry_create_init", "retry_create_read", "retry_create_record",
                        "retry_delete_record"}
    THEN {Head(tasks[t].operations).key}
    ELSE {}

\* C38: overlapping retry cycles are safe: when the interval expires while an
\* earlier retryFailedOperations is suspended at a read or at recordEvent, no
\* failed operation is retried by both, and no failed operation has two
\* records committed by retries.
C38_OverlappingRetriesAreSafe ==
    /\ \A t, u \in TaskIds : t # u => Retrying(t) \cap Retrying(u) = {}
    /\ \A i, j \in DOMAIN recovered : i # j => recovered[i] # recovered[j]

\* C39: the daily stats agree with the stored events after any sequence of
\* commits, also of transactions that were in flight at the same time: every
\* date with a stored event has a row, whose totalEvents is the number of
\* stored events of the date and whose eventCounts of each event type is the
\* number of those of the type; no update is lost and none is counted twice.
C39_DailyStatsMatchEvents ==
    /\ \A i \in EventIds : file_events[i].date \in DOMAIN daily_stats
    /\ \A d \in DOMAIN daily_stats :
           /\ daily_stats[d].totalEvents = EventsOn(d)
           /\ \A k \in EventTypes :
                  daily_stats[d].eventCounts[k] =
                      Cardinality({i \in EventIds : /\ file_events[i].date = d
                                                    /\ file_events[i].eventType = k})

\* the transactions of two records of the same date and of different event
\* types, created by two handlers, are in flight at the same time
C39_Witness ==
    /\ Len(txQueue) = 2
    /\ tasks[txQueue[1]].event.date = tasks[txQueue[2]].event.date
    /\ tasks[txQueue[1]].event.eventType # tasks[txQueue[2]].event.eventType

\* C40: shutdown is final: once the plugin's unload has run cleanup and
\* closed the database, no later file event and no handler that resumes
\* opens the database again, stores a PendingFileChange, arms a timer or
\* queues a record for the stores.
C40_ShutdownIsFinal ==
    [][(~retryInterval.armed /\ ~dbOpen)
       => /\ ~dbOpen'
          /\ DOMAIN fileContents' \subseteq DOMAIN fileContents
          /\ \A p \in Paths : Armed(p)' => Armed(p)
          /\ \A t \in TaskIds : ~Accepted(t)]_vars
====
